---- MODULE Spec2Model ----
(***************************************************************************)
(* Desktop capture backend: the correlation of OS clicks, browser-         *)
(* extension events and screenshots (backend/main.py), the capture         *)
(* scheduler (backend/capture.py) and the record sink (backend/logger.py). *)
(*                                                                         *)
(* Python values are modelled as optionals: None is the empty tuple and a  *)
(* value v is <<v>>, so that a missing value compares with every type.     *)
(* A dict is a record whose DOMAIN is the set of keys present.             *)
(* Times are wall-clock milliseconds.                                      *)
(***************************************************************************)
EXTENDS Integers, Sequences, FiniteSets, TLC

VARIABLES
    now,        \* time.time(), in ms
    nextId,     \* the next uuid4 handed out by _on_click
    pending,    \* AppState._pending, in insertion order (a Python dict)
    timer,      \* per click id: the threading.Timer and its thread (armedAt is
                \* kept while the thread waits or is due, 0 afterwards)
    ext,        \* the request thread running ext_event
    capAlive,   \* ScreenCapture._thread is alive
    stopEvent,  \* ScreenCapture._stop_event
    lastLine,   \* the Record Sink: the record the last step wrote, None if it wrote none
    flushed,    \* history: per click id, the number of log_click calls for it
    removed,    \* history: per click id, the number of times it was popped
    popped,     \* history: the click id the last step popped, the path and the
                \* point it matched, or None
    resp,       \* the response ext_event returned in the last step, None if none
    handled,    \* history: the payload that response answers, None if none
    hz,         \* state.config.hz, in mHz
    outputBase, \* state.config.output_base
    clickLogger,\* state.logger: the ClickLogger in use (gen tells one object
                \* from the next) and its output_base
    loop,       \* the loop thread of ScreenCapture: its `interval` (0 before the
                \* thread computed it), the time its sleep ends and (history)
                \* the images it has saved and the iterations that saved none
    joining,    \* a stop() call waiting in Thread.join: the time it began, or None
    op,         \* history: the scheduler or configuration operation of the
                \* last step, None if none
    ndjsonFile, \* clicks.ndjson: its lines
    csvFile,    \* per UTC day, the clicks.csv of that day's folder: its rows,
                \* the header row included
    utcDay,     \* the UTC day datetime.now reads, which names the day folder
    ndjsonLock, \* ClickLogger._ndjson_lock: the thread holding it, 0 if free
    csvLock,    \* ClickLogger._csv_lock: the thread holding it, 0 if free
    sinkThread, \* per thread that calls log_click: where it is in the call
    sinkCalls,  \* history: the log_click calls begun, the NDJSON writes that
                \* failed, the CSV writes that failed
    sinkRet,    \* history: the log_click call that returned in the last step,
                \* None if none
    listener,   \* GlobalClickListener: `obj` is _listener (0 for None, else the
                \* number of the pynput listener), `running` the listeners
                \* whose thread runs, `made` (history) the listeners created
    orphans,    \* the loop threads alive that ScreenCapture._thread does not
                \* refer to any more
    starting,   \* the request threads that call ScreenCapture.start: `pc` is
                \* where each is in the call, `unstarted` whether the Thread
                \* that _thread refers to was created and not yet started
    genLocks,   \* per ClickLogger object (by gen): the threads holding its
                \* _csv_lock and its _ndjson_lock, 0 if free
    inFlight,   \* the loop thread has passed `while not _stop_event.is_set()`
                \* and not yet finished the capture of that iteration
    host        \* the native messaging host process (native_host.py): its
                \* error_count, its exit status once ended, and as history
                \* what each read_message met and what was replied

vars == <<now, nextId, pending, timer, ext, capAlive, stopEvent,
          lastLine, flushed, removed, popped, resp, handled,
          hz, outputBase, clickLogger, loop, joining, op,
          ndjsonFile, csvFile, utcDay, ndjsonLock, csvLock, sinkThread, sinkCalls,
          sinkRet, listener, orphans, starting, genLocks, inFlight,
          host>>

\* The engine and the scheduler see the sink through lastLine; the files and
\* the threads inside log_click are followed in SinkSpec.
appVars == <<now, nextId, pending, timer, ext, capAlive, stopEvent,
             lastLine, flushed, removed, popped, resp, handled,
             hz, outputBase, clickLogger, loop, joining, op>>
sinkVars == <<ndjsonFile, csvFile, utcDay, ndjsonLock, csvLock, sinkThread, sinkCalls,
             sinkRet>>

\* The listener object, the request threads inside ScreenCapture.start, the
\* locks of each ClickLogger object and the loop thread inside an iteration
\* are followed in ListenerSpec, StartRaceSpec, RelogSpec and StopSpec; the
\* native messaging host, a process of its own, in HostSpec.
ctlVars == <<listener, orphans, starting, genLocks, inFlight, host>>

----------------------------------------------------------------------------
(* Bounds of the model *)
MaxClicks == 2

(* Program constants *)
MergeTimeoutMs == 250
MergeDistancePx == 80
ScreenshotAttachDistance == 120

Max(a, b) == IF a >= b THEN a ELSE b

\* AppState.__init__: max(0.75, 1.0 / max(0.1, hz) + 0.5), in ms, hz in mHz
ScreenshotAttachTimeoutMs(hzMilli) ==
    Max(750, (1000000 \div Max(100, hzMilli)) + 500)

\* AppState.__init__ builds CaptureConfig(hz=1.0)
InitHzMilli == 1000 * 1

\* Faulty variant of the interval: half the capture period
IntervalHalfPeriod(hzMilli) == Max(50, 500000 \div Max(100, hzMilli))

\* ScreenCapture._run_loop: max(0.05, 1.0 / max(0.1, hz)), in ms, hz in mHz
IntervalMs(hzMilli) == Max(50, 1000000 \div Max(100, hzMilli))

\* ScreenCapture.stop: self._thread.join(timeout=2.0)
JoinTimeoutMs == 2000

\* the ClickLogger objects set_config may build (the first is built by __init__)
MaxLoggers == 2

\* the threads that call log_click at the same time, and the calls they make
SinkThreads == 2
MaxCalls == 3

\* the request threads that may be inside ScreenCapture.start at the same time
Starters == 2

\* the UTC days the sink's clock goes through: the day the program starts in
\* and the day after
Days == {1, 2}

\* The clock readings of the model.  Seen from a click stored at 0 they are its
\* creation, the merge deadline (250), past it (500), the end of the screenshot
\* window (1500) and past it (1750); seen from a click stored at 250, 500 is
\* the merge deadline and 1750 the end of the screenshot window.
TimePoints == <<0, 250, 500, 1500, 1750>>

\* the listener reports clicks until this time
LastClickMs == 250

\* the latest a due timer thread gets to run, after its deadline
SlackMs == 1500

\* the latest the loop thread begins an iteration, after the end of its sleep
\* (the time the iteration before took and the wait for the processor)
IterationSlackMs == 1000

----------------------------------------------------------------------------
(* Python values *)
None == <<>>
Some(v) == <<v>>

\* dict.get(k), dict.get(k, d), d[k] = v, d.setdefault(k, v)
Get(rec, k) == IF k \in DOMAIN rec THEN rec[k] ELSE None
GetDefault(rec, k, d) == IF k \in DOMAIN rec THEN rec[k] ELSE d
Put(rec, k, v) == [f \in (DOMAIN rec) \cup {k} |-> IF f = k THEN v ELSE rec[f]]
SetDefault(rec, k, v) == IF k \in DOMAIN rec THEN rec ELSE Put(rec, k, v)

\* Python truthiness of an optional string / integer
TruthyStr(o) == o # None /\ o[1] # ""
TruthyInt(o) == o # None /\ o[1] # 0
\* a or b
OrStr(a, b) == IF TruthyStr(a) THEN a ELSE b
OrInt(a, b) == IF TruthyInt(a) THEN a ELSE b

----------------------------------------------------------------------------
(* Inputs *)

\* where the OS reports a left-button press
ClickPoints == {<<0, 0>>, <<96, 0>>}

\* what the listener found out about the clicked window
ClickContexts ==
    { [title |-> Some("Report - Google Chrome"), app |-> Some("chrome.exe"),
       pid |-> Some(4242), text |-> Some("copied selection")],
      [title |-> None, app |-> None, pid |-> None, text |-> None] }

\* where an extension event may be: <<80,0>> is 80 px from the first click point
\* and 16 px from the second, <<48,64>> is 80 px from both, <<81,0>> is 81 px
\* from the first and 15 px from the second;
\* where the pointer may be at a capture: <<48,0>> is 48 px from both click
\* points, <<120,0>> is 120 px from the first and 24 px from the second,
\* <<121,0>> is 121 px from the first and 25 px from the second
EventPoints == {<<80, 0>>, <<48, 64>>, <<81, 0>>}
CursorPoints == {<<48, 0>>, <<120, 0>>, <<121, 0>>}

\* what a capture attempt gives: None when the grab fails, else the pointer
\* position of the screenshot saved
Grabs == {None} \cup {Some(cursor) : cursor \in CursorPoints}

\* the text/url/title/display_id an extension payload may carry
ExtContents ==
    { [text |-> Some("selected in page"), url |-> Some("https://example.org/a"),
       title |-> Some("Example"), display_id |-> Some(2)],
      [text |-> Some(""), url |-> Some(""), title |-> Some(""), display_id |-> Some(0)],
      [text |-> Some("pdf words"), url |-> Some("file:///C:/docs/a%20b.pdf")],
      [url |-> None] }

\* payloads with global coordinates and a device pixel ratio (in hundredths)
GlobalPayloads ==
    { [text |-> Some("g"), global_x |-> Some(600), global_y |-> Some(150),
       devicePixelRatio |-> Some(200)],
      [text |-> Some("g"), global_x |-> Some(2400), global_y |-> Some(600),
       dpr |-> Some(200)],
      [text |-> Some("g"), global_x |-> Some(5000), global_y |-> Some(5000)] }

WithXY(c, p) == Put(Put(c, "x", Some(p[1])), "y", Some(p[2]))

\* what an event from a page carries
WindowPayload ==
    [text |-> Some("selected in page"), url |-> Some("https://example.org/a"),
     title |-> Some("Example"), display_id |-> Some(2)]

\* payloads that differ in where the event is: one content at every event
\* point, and the same content with y or x missing
PointPayloads ==
    { WithXY(WindowPayload, p) : p \in EventPoints }
    \cup { Put(WindowPayload, "x", Some(80)), Put(WindowPayload, "y", Some(0)) }

\* a payload that carries nothing: {"url": null}
EmptyPayload == [url |-> None]

\* payloads that differ in what the event carries: every content at one event
\* point or with one coordinate, the payloads with global coordinates and the
\* payload that carries nothing
FieldPayloads ==
    { WithXY(c, <<16, 0>>) : c \in ExtContents }
    \cup { Put(c, "x", Some(16)) : c \in ExtContents }
    \cup GlobalPayloads
    \cup { EmptyPayload }

----------------------------------------------------------------------------
(* listener.py: the record GlobalClickListener.start.on_click hands to        *)
(* config.on_click; "text" is present only when a selection was extracted    *)
ListenerRecord(pt, ctx, t) ==
    LET base == [timestamp_utc |-> Some(t), x |-> Some(pt[1]), y |-> Some(pt[2]),
                 app_name |-> ctx.app, process_id |-> ctx.pid,
                 window_title |-> ctx.title, display_id |-> Some(1),
                 source |-> Some("os")]
    IN  IF ctx.text # None THEN Put(base, "text", ctx.text) ELSE base

(* logger.py: ClickLogger.log_click normalises the record it writes *)
NormKeys == {"timestamp_utc", "x", "y", "app_name", "process_id", "window_title",
             "display_id", "source", "url_or_path", "text", "screenshot_path"}

LogNormalize(record, t) ==
    [k \in NormKeys \cup DOMAIN record |->
        IF k = "timestamp_utc" THEN GetDefault(record, k, Some(t))
        ELSE IF k = "source" THEN GetDefault(record, k, Some("os"))
        ELSE Get(record, k)]

\* one log_click call: the line written, and (history) the path that called it
\* and the pending id it flushed (0 for a standalone record)
LogClick(record, by, id) ==
    /\ lastLine' = Some([line |-> LogNormalize(record, now), by |-> by, id |-> id])
    /\ flushed' = IF id = 0 THEN flushed ELSE [flushed EXCEPT ![id] = @ + 1]

\* a step that does not call log_click
NoWrite ==
    /\ lastLine' = None
    /\ UNCHANGED flushed

\* a step that does not answer an ext_event request
NoResponse ==
    /\ resp' = None
    /\ handled' = None

----------------------------------------------------------------------------
(* The pending set *)

Dist2(ax, ay, bx, by) == (ax - bx) * (ax - bx) + (ay - by) * (ay - by)

\* The scan loop shared in shape by _on_screenshot (main.py 78-91) and ext_event
\* (main.py 302-314): entries in dict order; an entry without coordinates or older
\* than `timeout` is skipped; a strictly nearer entry within `maxDist` replaces
\* the best so far.  The code compares dist = sqrt(d2) as floats; for integer
\* coordinates sqrt is strictly monotonic on d2, so d2 is compared here.
\* `best` is the index of the best entry so far (0 for none), bestD its d2.
RECURSIVE NearestEligible(_, _, _, _, _, _, _, _, _)
NearestEligible(pend, i, best, bestD, tnow, cx, cy, timeout, maxDist) ==
    IF i > Len(pend) THEN best
    ELSE LET entry == pend[i]
             rx == Get(entry.record, "x")
             ry == Get(entry.record, "y")
         IN  IF rx = None \/ ry = None
             THEN NearestEligible(pend, i + 1, best, bestD, tnow, cx, cy, timeout, maxDist)
             ELSE IF tnow - entry.created_at > timeout
             THEN NearestEligible(pend, i + 1, best, bestD, tnow, cx, cy, timeout, maxDist)
             ELSE LET d == Dist2(rx[1], ry[1], cx, cy)
                  IN  IF d <= maxDist * maxDist /\ (best = 0 \/ d < bestD)
                      THEN NearestEligible(pend, i + 1, i, d, tnow, cx, cy, timeout, maxDist)
                      ELSE NearestEligible(pend, i + 1, best, bestD, tnow, cx, cy, timeout, maxDist)

\* Faulty variants of the scans, which the properties below must tell from
\* the code: among the nearest entries the one stored last wins, ext_event
\* scanning with the screenshot distance, and _on_screenshot accepting a click
\* one pixel beyond its distance
NearestLatest(pend, tnow, cx, cy, timeout, maxDist) ==
    LET D(i) == Dist2(pend[i].record.x[1], pend[i].record.y[1], cx, cy)
        inRange == {i \in DOMAIN pend : /\ tnow - pend[i].created_at <= timeout
                                        /\ D(i) <= maxDist * maxDist}
        nearest == {i \in inRange : \A j \in inRange : D(i) <= D(j)}
    IN  IF inRange = {} THEN 0
        ELSE CHOOSE i \in nearest : \A j \in nearest : i >= j

ShotCandidateWide(pend, tnow, cx, cy, attachTimeout) ==
    NearestEligible(pend, 1, 0, 0, tnow, cx, cy, attachTimeout,
                    ScreenshotAttachDistance + 1)

ShotCandidateLatest(pend, tnow, cx, cy, attachTimeout) ==
    NearestLatest(pend, tnow, cx, cy, attachTimeout, ScreenshotAttachDistance)

ExtBestLatest(pend, tnow, px, py) ==
    NearestLatest(pend, tnow, px, py, MergeTimeoutMs, MergeDistancePx)

ExtBestWide(pend, tnow, px, py) ==
    NearestEligible(pend, 1, 0, 0, tnow, px, py, MergeTimeoutMs, ScreenshotAttachDistance)

\* _on_screenshot, lines 77-95: the index in pending of the candidate, or 0
ShotCandidate(pend, tnow, cx, cy, attachTimeout) ==
    NearestEligible(pend, 1, 0, 0, tnow, cx, cy, attachTimeout, ScreenshotAttachDistance)

\* ext_event, lines 298-317: the index in pending of `best`, or 0
ExtBest(pend, tnow, px, py) ==
    NearestEligible(pend, 1, 0, 0, tnow, px, py, MergeTimeoutMs, MergeDistancePx)

\* dict.pop of the entry at index i
RemoveAt(pend, i) == SubSeq(pend, 1, i - 1) \o SubSeq(pend, i + 1, Len(pend))

PendingIds == {pending[i].id : i \in DOMAIN pending}
IndexOfId(pend, id) == CHOOSE i \in DOMAIN pend : pend[i].id = id

\* dict.pop of the entry at index i by path `by`, with its history; `near` is
\* the point the path compared the entry with, None for the timer
Pop(i, by, near) ==
    /\ pending' = RemoveAt(pending, i)
    /\ removed' = [removed EXCEPT ![pending[i].id] = @ + 1]
    /\ popped' = Some([id |-> pending[i].id, by |-> by, near |-> near])

\* a step that pops nothing
NoPop ==
    /\ popped' = None
    /\ UNCHANGED <<pending, removed>>

\* Faulty variant of the cancellation: a match that stops every armed timer
CancelAll(tm, id) ==
    [c \in DOMAIN tm |-> IF tm[c].st = "armed"
                         THEN [st |-> "finished", armedAt |-> 0]
                         ELSE tm[c]]

\* threading.Timer.cancel(): sets `finished`; it stops a timer whose thread has
\* not yet passed its check of `finished`, and changes nothing for a thread
\* that has passed it
Cancel(tm, id) ==
    IF tm[id].st = "armed"
    THEN [tm EXCEPT ![id] = [st |-> "finished", armedAt |-> 0]]
    ELSE tm

----------------------------------------------------------------------------
(* ext_event (POST /ext_event), on a request thread *)

\* the platform: the backend is a Windows program (os.name)
OsName == "nt"

\* isinstance(url_val, str) and url_val.startswith("file://")
IsFileUrl(u) == u # None /\ u[1] \in {"file:///C:/docs/a%20b.pdf"}

\* unquote(urlparse(url).path), without the leading "/" of a drive path on nt
UrlToPath(u) ==
    CASE u[1] = "file:///C:/docs/a%20b.pdf" ->
            IF OsName = "nt" THEN Some("C:/docs/a b.pdf") ELSE Some("/C:/docs/a b.pdf")

\* Faulty variant of the merge: the OS click's values win over the payload's
MergeRecordOsFirst(rec, payload, screenshot_path) ==
    LET r1 == Put(rec, "text", OrStr(Get(rec, "text"), Get(payload, "text")))
        r2 == IF screenshot_path # None
              THEN Put(r1, "screenshot_path", screenshot_path) ELSE r1
        r3 == Put(r2, "url_or_path", OrStr(Get(r2, "url_or_path"), Get(payload, "url")))
        r4 == Put(r3, "window_title",
                  OrStr(Get(r3, "window_title"), Get(payload, "title")))
        r5 == Put(r4, "display_id",
                  OrInt(Get(r4, "display_id"), Get(payload, "display_id")))
    IN  Put(r5, "source", Some("ext"))

\* lines 325-348: the pending record after the payload is merged into it
MergeRecord(rec, payload, screenshot_path) ==
    LET r1 == Put(rec, "text", OrStr(Get(payload, "text"), Get(rec, "text")))
        r2 == IF screenshot_path # None
              THEN Put(r1, "screenshot_path", screenshot_path) ELSE r1
        url_val == Get(payload, "url")
        r3 == IF IsFileUrl(url_val)
              THEN Put(Put(r2, "doc_path", UrlToPath(url_val)),
                       "url_or_path", UrlToPath(url_val))
              ELSE Put(r2, "url_or_path", OrStr(url_val, Get(r2, "url_or_path")))
        r4 == Put(r3, "window_title",
                  OrStr(Get(payload, "title"), Get(r3, "window_title")))
        r5 == Put(r4, "display_id",
                  OrInt(Get(payload, "display_id"), Get(r4, "display_id")))
    IN  Put(r5, "source", Some("ext"))

\* sct.monitors: index 0 (here position 1) is the virtual screen
Monitors ==
    << [left |-> 0, top |-> 0, width |-> 1000, height |-> 1000],
       [left |-> 0, top |-> 0, width |-> 1000, height |-> 800],
       [left |-> 1000, top |-> 0, width |-> 800, height |-> 600] >>

InMonitor(mon, px, py) ==
    /\ mon.left <= px /\ px < mon.left + mon.width
    /\ mon.top <= py /\ py < mon.top + mon.height

\* capture.py, _get_monitor_index_for_point: `for idx in range(1, len(monitors))`
\* returns the first idx whose monitor holds the point, and 1 after the loop;
\* Python index idx is position idx + 1 here
RECURSIVE ScanMonitors(_, _, _, _)
ScanMonitors(monitors, idx, x, y) ==
    IF idx >= Len(monitors) THEN 1
    ELSE IF InMonitor(monitors[idx + 1], x, y) THEN idx
    ELSE ScanMonitors(monitors, idx + 1, x, y)

\* Faulty variant of the locator: the scan begins at the virtual screen
GetMonitorIndexFromVirtual(monitors, x, y) == ScanMonitors(monitors, 0, x, y)

GetMonitorIndexForPoint(monitors, x, y) == ScanMonitors(monitors, 1, x, y)

\* the layouts sct.monitors may report: the example's two monitors side by
\* side, two monitors that overlap, one monitor, and a second monitor to the
\* left of the primary one
MonitorLayouts ==
    { Monitors,
      << [left |-> 0, top |-> 0, width |-> 1500, height |-> 800],
         [left |-> 0, top |-> 0, width |-> 1000, height |-> 800],
         [left |-> 500, top |-> 0, width |-> 1000, height |-> 800] >>,
      << [left |-> 0, top |-> 0, width |-> 1000, height |-> 800],
         [left |-> 0, top |-> 0, width |-> 1000, height |-> 800] >>,
      << [left |-> 0 - 800, top |-> 0, width |-> 1800, height |-> 800],
         [left |-> 0, top |-> 0, width |-> 1000, height |-> 800],
         [left |-> 0 - 800, top |-> 0, width |-> 800, height |-> 600] >> }

\* pointer positions on and around the edges of those monitors
LocatorXs == {0 - 1, 0, 500, 999, 1000, 1200, 1799, 1800, 1999}
LocatorYs == {0 - 1, 0, 300, 400, 599, 600, 799, 800, 999}

\* try_map, lines 399-404: the first real monitor holding the point, or None;
\* Python index idx is position idx + 1 here
TryMap(monitors, px, py) ==
    LET hits == {idx \in 1..(Len(monitors) - 1) : InMonitor(monitors[idx + 1], px, py)}
    IN  IF hits = {} THEN None
        ELSE Some(CHOOSE idx \in hits : \A other \in hits : idx <= other)

\* int(round(n / d)) for d > 0: Python rounds a half to the even neighbour
RoundHalfEven(n, d) ==
    LET q == n \div d
        r == n % d
    IN  IF 2 * r < d THEN q
        ELSE IF 2 * r > d THEN q + 1
        ELSE IF q % 2 = 0 THEN q ELSE q + 1

\* Faulty variant of the mapping: the point scaled up by dpr is tried before
\* the raw point
MapGlobalScaledFirst(monitors, gx, gy, dpr) ==
    LET scaling == dpr # 0 /\ dpr # 100
        sgx == RoundHalfEven(gx * dpr, 100)
        sgy == RoundHalfEven(gy * dpr, 100)
        up == IF scaling THEN TryMap(monitors, sgx, sgy) ELSE None
        raw == TryMap(monitors, gx, gy)
        dgx == RoundHalfEven(gx * 100, dpr)
        dgy == RoundHalfEven(gy * 100, dpr)
        down == IF scaling THEN TryMap(monitors, dgx, dgy) ELSE None
    IN  IF up # None THEN <<up, <<sgx, sgy>>>>
        ELSE IF raw # None THEN <<raw, <<gx, gy>>>>
        ELSE IF down # None THEN <<down, <<dgx, dgy>>>>
        ELSE <<None, <<gx, gy>>>>

\* lines 385-440: display_id and x, y from global coordinates; dpr is held in
\* hundredths (200 is 2.0); the result is <<mapped, used_coords>>
MapGlobal(monitors, gx, gy, dpr) ==
    LET raw == TryMap(monitors, gx, gy)
        scaling == dpr # 0 /\ dpr # 100
        sgx == RoundHalfEven(gx * dpr, 100)
        sgy == RoundHalfEven(gy * dpr, 100)
        up == IF raw = None /\ scaling THEN TryMap(monitors, sgx, sgy) ELSE raw
        dgx == RoundHalfEven(gx * 100, dpr)
        dgy == RoundHalfEven(gy * 100, dpr)
        down == IF up = None /\ scaling THEN TryMap(monitors, dgx, dgy) ELSE up
    IN  IF raw # None THEN <<raw, <<gx, gy>>>>
        ELSE IF up # None THEN <<up, <<sgx, sgy>>>>
        ELSE IF down # None THEN <<down, <<dgx, dgy>>>>
        ELSE <<None, <<gx, gy>>>>

\* what find_pid_for_window_title may answer: (process name, pid)
PidGuesses == {<<None, None>>, <<Some("chrome.exe"), Some(4242)>>}

\* lines 357-469: the ext-only record, on the monitors sct.monitors reports
StandaloneRecordOn(monitors, payload, screenshot_path, guess) ==
    LET url_val == Get(payload, "url")
        r0 == [source |-> Some("ext"), text |-> Get(payload, "text"),
               url_or_path |-> url_val, x |-> Get(payload, "x"),
               y |-> Get(payload, "y"), app_name |-> Some("chrome"),
               process_id |-> None, window_title |-> Get(payload, "title"),
               display_id |-> Get(payload, "display_id"),
               screenshot_path |-> screenshot_path]
        r1 == IF IsFileUrl(url_val)
              THEN Put(Put(r0, "doc_path", UrlToPath(url_val)),
                       "url_or_path", UrlToPath(url_val))
              ELSE r0
        gx == Get(payload, "global_x")
        gy == Get(payload, "global_y")
        dpr == OrInt(OrInt(Get(payload, "devicePixelRatio"), Get(payload, "dpr")),
                     Some(100))
        m == MapGlobal(monitors, gx[1], gy[1], dpr[1])
        r2 == IF gx # None /\ gy # None /\ m[1] # None
              THEN Put(Put(Put(r1, "display_id", m[1]), "x", Some(m[2][1])),
                       "y", Some(m[2][2]))
              ELSE r1
        title == OrStr(Get(payload, "title"), Get(payload, "url"))
    IN  IF TruthyStr(title) /\ TruthyInt(guess[2])
        THEN Put(Put(r2, "process_id", guess[2]),
                 "app_name", OrStr(guess[1], Get(r2, "app_name")))
        ELSE r2

\* the ext-only record on the monitors of the engine's model
StandaloneRecord(payload, screenshot_path, guess) ==
    StandaloneRecordOn(Monitors, payload, screenshot_path, guess)

----------------------------------------------------------------------------
(* The configuration (POST /config) *)

\* os.path.abspath(OUTPUT_BASE), the DesktopCapture folder of the user's Documents
InitOutputBase == "C:/Users/u/Documents/DesktopCapture"

\* os.path.abspath: a relative path is joined to the working directory, C:/app
AbsPath(path) ==
    CASE path = "out" -> "C:/app/out"
      [] path = "D:/captures" -> "D:/captures"
      [] path = InitOutputBase -> InitOutputBase

\* what a request may carry: hz absent, zero, negative, 0.25 Hz or 2 Hz;
\* output_base absent, relative or absolute
HzArgs == {None, Some(0), Some(0 - 1000), Some(250), Some(2000)}
BaseArgs == {None, Some("out"), Some("D:/captures")}

\* a step that is no scheduler or configuration operation and leaves the
\* configuration, the loop thread and a waiting stop() alone
NoOp ==
    /\ op' = None
    /\ UNCHANGED <<hz, outputBase, clickLogger, loop, joining>>

\* the loop thread before it computed `interval`, and when there is none
NoLoop == [interval |-> 0, wake |-> 0, saved |-> 0, failed |-> 0]

\* set_config (POST /config): hz and output_base are optional; `made` tells
\* whether os.makedirs in ClickLogger.__init__ could create the folder (it
\* raises otherwise, after config.output_base was assigned, and the request
\* fails).  `ret` is the dict returned, None when the handler raised.
SetConfig(hzArg, baseArg, made) ==
    /\ baseArg # None /\ made => clickLogger.gen < MaxLoggers
    /\ hz' = IF hzArg # None /\ hzArg[1] > 0 THEN hzArg[1] ELSE hz
    /\ outputBase' = IF baseArg # None THEN AbsPath(baseArg[1]) ELSE outputBase
    /\ clickLogger' = IF baseArg # None /\ made
                      THEN [gen |-> clickLogger.gen + 1, base |-> outputBase']
                      ELSE clickLogger
    /\ op' = Some([name |-> "config", hz |-> hzArg, output_base |-> baseArg,
                   ret |-> IF baseArg # None /\ ~made THEN None
                           ELSE Some([hz |-> hz', output_base |-> outputBase'])])
    /\ popped' = None
    /\ lastLine' = None
    /\ resp' = None
    /\ handled' = None
    /\ UNCHANGED <<now, nextId, pending, timer, ext, capAlive, stopEvent,
                   flushed, removed, loop, joining>>
    /\ UNCHANGED sinkVars
    /\ UNCHANGED ctlVars

----------------------------------------------------------------------------
(* State after `state = AppState()` *)
Constructed ==
    /\ now = 0
    /\ nextId = 1
    /\ pending = <<>>
    /\ timer = <<>>
    /\ ext = [pc |-> "idle"]
    /\ capAlive = FALSE
    /\ stopEvent = FALSE
    /\ lastLine = None
    /\ flushed = <<>>
    /\ removed = <<>>
    /\ popped = None
    /\ resp = None
    /\ handled = None
    /\ hz = InitHzMilli
    /\ outputBase = InitOutputBase
    /\ clickLogger = [gen |-> 1, base |-> InitOutputBase]
    /\ loop = NoLoop
    /\ joining = None
    /\ ndjsonFile = <<>>
    /\ csvFile = [d \in Days |-> <<>>]
    /\ utcDay = 1
    /\ ndjsonLock = 0
    /\ csvLock = 0
    /\ sinkThread = [t \in 1..SinkThreads |-> [pc |-> "idle"]]
    /\ sinkCalls = [begun |-> 0, ndjsonFailed |-> 0, csvFailed |-> 0]
    /\ sinkRet = None
    /\ listener = [obj |-> 0, running |-> {}, made |-> 0]
    /\ orphans = 0
    /\ starting = [pc |-> [t \in 1..Starters |-> "idle"], unstarted |-> FALSE]
    /\ genLocks = [g \in 1..MaxLoggers |-> [csv |-> 0, ndjson |-> 0]]
    /\ inFlight = FALSE
    /\ host = [status |-> "running", error_count |-> 0, trail |-> <<>>,
               reply |-> None, logged |-> 0]

Init ==
    /\ Constructed
    /\ op = None

\* AppState._screenshot_attach_timeout: computed once, in __init__
AttachTimeoutMs == ScreenshotAttachTimeoutMs(InitHzMilli)

\* utc_iso_millis() + ".png": the file is named after the time of the capture
ScreenshotPath(t) == t

(* Each action below is one critical section of _pending_lock together with  *)
(* the code of the same thread that follows it, which touches only the entry *)
(* it popped, that entry's Timer (cancel is thread-safe) and the sink.       *)

----------------------------------------------------------------------------
\* Faulty variant of _on_click: it also writes the record to the sink, on the
\* listener thread
OnClickWriteThrough(pt, ctx) ==
    /\ nextId <= MaxClicks
    /\ now <= LastClickMs
    /\ LET record_id == nextId
           record == SetDefault(SetDefault(SetDefault(ListenerRecord(pt, ctx, now),
                         "screenshot_path", None), "source", Some("os")),
                         "_id", Some(record_id))
       IN  /\ pending' = Append(pending, [id |-> record_id, record |-> record,
                                          created_at |-> now])
           /\ timer' = Append(timer, [st |-> "armed", armedAt |-> now])
           /\ removed' = Append(removed, 0)
           /\ flushed' = Append(flushed, 1)
           /\ nextId' = nextId + 1
           /\ lastLine' = Some([line |-> LogNormalize(record, now),
                                by |-> "listener", id |-> record_id])
    /\ popped' = None
    /\ NoResponse
    /\ UNCHANGED <<now, ext, capAlive, stopEvent>>
    /\ NoOp
    /\ UNCHANGED sinkVars
    /\ UNCHANGED ctlVars

(* AppState._on_click, on the listener thread: the record gets its defaults *)
(* and its id, the entry is stored under the lock and the timer is started  *)
OnClick(pt, ctx) ==
    /\ nextId <= MaxClicks
    /\ now <= LastClickMs
    /\ LET record_id == nextId
           r0 == ListenerRecord(pt, ctx, now)
           r1 == SetDefault(r0, "screenshot_path", None)
           r2 == SetDefault(r1, "source", Some("os"))
           record == SetDefault(r2, "_id", Some(record_id))
       IN  /\ pending' = Append(pending, [id |-> record_id, record |-> record,
                                          created_at |-> now])
           /\ timer' = Append(timer, [st |-> "armed", armedAt |-> now])
           /\ removed' = Append(removed, 0)
           /\ flushed' = Append(flushed, 0)
           /\ nextId' = nextId + 1
    /\ popped' = None
    /\ lastLine' = None
    /\ NoResponse
    /\ UNCHANGED <<now, ext, capAlive, stopEvent>>
    /\ NoOp
    /\ UNCHANGED sinkVars
    /\ UNCHANGED ctlVars

(* The Timer thread of click c *)

\* Faulty variants of the timer thread: a timer that does not wait for its
\* interval, a _flush that reads the entry without popping it, and a _flush
\* that pops the entry without logging it
TimerFireAtOnce(c) ==
    /\ timer[c].st = "armed"
    /\ timer' = [timer EXCEPT ![c].st = "fired"]
    /\ NoPop
    /\ NoWrite
    /\ NoResponse
    /\ UNCHANGED <<now, nextId, ext, capAlive, stopEvent>>
    /\ NoOp
    /\ UNCHANGED sinkVars
    /\ UNCHANGED ctlVars

TimerFlushPeek(c) ==
    /\ timer[c].st = "fired"
    /\ timer' = [timer EXCEPT ![c] = [st |-> "finished", armedAt |-> 0]]
    /\ IF c \in PendingIds
       THEN LogClick(pending[IndexOfId(pending, c)].record, "timer", c)
       ELSE NoWrite
    /\ NoPop
    /\ NoResponse
    /\ UNCHANGED <<now, nextId, ext, capAlive, stopEvent>>
    /\ NoOp
    /\ UNCHANGED sinkVars
    /\ UNCHANGED ctlVars

TimerFlushDrop(c) ==
    /\ timer[c].st = "fired"
    /\ timer' = [timer EXCEPT ![c] = [st |-> "finished", armedAt |-> 0]]
    /\ IF c \in PendingIds
       THEN Pop(IndexOfId(pending, c), "timer", None)
       ELSE NoPop
    /\ NoWrite
    /\ NoResponse
    /\ UNCHANGED <<now, nextId, ext, capAlive, stopEvent>>
    /\ NoOp
    /\ UNCHANGED sinkVars
    /\ UNCHANGED ctlVars

\* threading.Timer.run: finished.wait(interval) timed out and `finished` is not set
TimerFire(c) ==
    /\ timer[c].st = "armed"
    /\ now >= timer[c].armedAt + MergeTimeoutMs
    /\ timer' = [timer EXCEPT ![c].st = "fired"]
    /\ NoPop
    /\ NoWrite
    /\ NoResponse
    /\ UNCHANGED <<now, nextId, ext, capAlive, stopEvent>>
    /\ NoOp
    /\ UNCHANGED sinkVars
    /\ UNCHANGED ctlVars

\* _flush: pop under the lock; return when the id is gone, else log_click;
\* Timer.run then sets `finished`
TimerFlush(c) ==
    /\ timer[c].st = "fired"
    /\ timer' = [timer EXCEPT ![c] = [st |-> "finished", armedAt |-> 0]]
    /\ IF c \in PendingIds
       THEN LET i == IndexOfId(pending, c)
            IN  /\ Pop(i, "timer", None)
                /\ LogClick(pending[i].record, "timer", c)
       ELSE /\ NoPop
            /\ NoWrite
    /\ NoResponse
    /\ UNCHANGED <<now, nextId, ext, capAlive, stopEvent>>
    /\ NoOp
    /\ UNCHANGED sinkVars
    /\ UNCHANGED ctlVars

----------------------------------------------------------------------------
(* AppState._on_screenshot(path, cursor_x, cursor_y, monitor_index): the    *)
(* capture callback; `by` is the thread it runs on (history)                *)
AttachScreenshot(rec, path) == Put(rec, "screenshot_path", Some(path))

OnScreenshot(path, cursor, by) ==
    LET i == ShotCandidate(pending, now, cursor[1], cursor[2], AttachTimeoutMs)
    IN  IF i # 0
        THEN /\ Pop(i, by, Some(cursor))
             /\ timer' = Cancel(timer, pending[i].id)
             /\ LogClick(AttachScreenshot(pending[i].record, path), by, pending[i].id)
        ELSE /\ NoPop
             /\ NoWrite
             /\ UNCHANGED timer

(* ScreenCapture: the scheduler and its loop thread *)

\* Faulty variant of the scheduler: a start() that always starts a thread
CaptureStartAgain ==
    /\ stopEvent' = FALSE
    /\ capAlive' = TRUE
    /\ loop' = NoLoop
    /\ op' = Some([name |-> "start", running |-> capAlive])
    /\ NoPop
    /\ NoWrite
    /\ NoResponse
    /\ UNCHANGED <<now, nextId, timer, ext, hz, outputBase, clickLogger, joining>>
    /\ UNCHANGED sinkVars
    /\ UNCHANGED ctlVars

\* ScreenCapture.start: nothing when the thread is alive; else the event is
\* cleared and a new thread is started
CaptureStart ==
    /\ IF capAlive
       THEN UNCHANGED <<capAlive, stopEvent, loop>>
       ELSE /\ stopEvent' = FALSE
            /\ capAlive' = TRUE
            /\ loop' = NoLoop
    /\ op' = Some([name |-> "start", running |-> capAlive])
    /\ NoPop
    /\ NoWrite
    /\ NoResponse
    /\ UNCHANGED <<now, nextId, timer, ext, hz, outputBase, clickLogger, joining>>
    /\ UNCHANGED sinkVars
    /\ UNCHANGED ctlVars

\* Faulty variant of the scheduler: a stop() that also empties the pending
\* set and stops the timers
CaptureStopDropsPending ==
    /\ joining = None
    /\ stopEvent' = TRUE
    /\ joining' = Some(now)
    /\ op' = Some([name |-> "stop"])
    /\ pending' = <<>>
    /\ timer' = [c \in DOMAIN timer |-> [st |-> "finished", armedAt |-> 0]]
    /\ popped' = None
    /\ UNCHANGED removed
    /\ NoWrite
    /\ NoResponse
    /\ UNCHANGED <<now, nextId, ext, capAlive, hz, outputBase, clickLogger, loop>>
    /\ UNCHANGED sinkVars
    /\ UNCHANGED ctlVars

\* ScreenCapture.stop, up to the join: sets the event and waits for the thread
CaptureStop ==
    /\ joining = None
    /\ stopEvent' = TRUE
    /\ joining' = Some(now)
    /\ op' = Some([name |-> "stop"])
    /\ NoPop
    /\ NoWrite
    /\ NoResponse
    /\ UNCHANGED <<now, nextId, timer, ext, capAlive, hz, outputBase, clickLogger, loop>>
    /\ UNCHANGED sinkVars
    /\ UNCHANGED ctlVars

\* ScreenCapture.stop returns: join(timeout=2.0) ends when the thread has
\* ended or the timeout has passed (at once when there is no live thread)
CaptureJoinReturn ==
    /\ joining # None
    /\ ~capAlive \/ now >= joining[1] + JoinTimeoutMs
    /\ joining' = None
    /\ op' = Some([name |-> "stopped"])
    /\ NoPop
    /\ NoWrite
    /\ NoResponse
    /\ UNCHANGED <<now, nextId, timer, ext, capAlive, stopEvent,
                   hz, outputBase, clickLogger, loop>>
    /\ UNCHANGED sinkVars
    /\ UNCHANGED ctlVars

\* _run_loop line 103: `interval` is computed once, when the thread begins
LoopInterval == IF loop.interval = 0 THEN IntervalMs(hz) ELSE loop.interval

\* _run_loop: the sleep is over, `while not self._stop_event.is_set()` fails
\* and the thread ends
CaptureLoopExit ==
    /\ capAlive
    /\ now >= loop.wake
    /\ stopEvent
    /\ capAlive' = FALSE
    /\ loop' = [NoLoop EXCEPT !.saved = loop.saved, !.failed = loop.failed]
    /\ op' = Some([name |-> "exit"])
    /\ NoPop
    /\ NoWrite
    /\ NoResponse
    /\ UNCHANGED <<now, nextId, timer, ext, stopEvent,
                   hz, outputBase, clickLogger, joining>>
    /\ UNCHANGED sinkVars
    /\ UNCHANGED ctlVars

\* _run_loop lines 106-168, the capture of one iteration: it fails at the
\* pointer query, the monitor lookup, the grab (tried twice), the drawing or
\* the save (tried twice), all inside the `try` of line 106, and is logged
\* (grab is None: nothing is saved, no callback), or the screenshot is saved
\* and on_capture is called
LoopCapture(grab) ==
    IF grab # None
    THEN OnScreenshot(ScreenshotPath(now), grab[1], "loop")
    ELSE /\ NoPop
         /\ NoWrite
         /\ UNCHANGED timer

\* Faulty variant of the loop: its thread ends when the capture of an
\* iteration fails
RunLoopIterationFatal(grab) ==
    /\ capAlive
    /\ now >= loop.wake
    /\ ~stopEvent
    /\ LoopCapture(grab)
    /\ IF grab # None
       THEN /\ loop' = [interval |-> LoopInterval, wake |-> now + LoopInterval,
                         saved |-> loop.saved + 1, failed |-> loop.failed]
            /\ UNCHANGED capAlive
       ELSE /\ capAlive' = FALSE
            /\ loop' = NoLoop
    /\ op' = Some([name |-> "iteration", saved |-> grab # None])
    /\ NoResponse
    /\ UNCHANGED <<now, nextId, ext, stopEvent, hz, outputBase, clickLogger, joining>>
    /\ UNCHANGED sinkVars
    /\ UNCHANGED ctlVars

\* _run_loop, one iteration with its sleep: the sleep of the iteration before
\* is over and the event is not set; the capture; then the thread sleeps
\* `interval`
RunLoopIteration(grab) ==
    /\ capAlive
    /\ now >= loop.wake
    /\ ~stopEvent
    /\ LoopCapture(grab)
    /\ loop' = [interval |-> LoopInterval, wake |-> now + LoopInterval,
                saved |-> loop.saved + (IF grab # None THEN 1 ELSE 0),
                failed |-> loop.failed + (IF grab # None THEN 0 ELSE 1)]
    /\ op' = Some([name |-> "iteration", saved |-> grab # None])
    /\ NoResponse
    /\ UNCHANGED <<now, nextId, ext, capAlive, stopEvent,
                   hz, outputBase, clickLogger, joining>>
    /\ UNCHANGED sinkVars
    /\ UNCHANGED ctlVars

\* _run_loop, one iteration as the engine sees it: the sleep is left out, so
\* that the loop may iterate at any time, whatever its interval and phase
CaptureLoopIteration(grab) ==
    /\ capAlive
    /\ ~stopEvent
    /\ LoopCapture(grab)
    /\ NoResponse
    /\ UNCHANGED <<now, nextId, ext, capAlive, stopEvent>>
    /\ NoOp
    /\ UNCHANGED sinkVars
    /\ UNCHANGED ctlVars

\* What the screen and the disk answer during one capture: the pointer
\* position, whether sct.grab succeeds at its first and second attempt,
\* whether img.save succeeds at its first and second attempt, and the
\* on_capture callback set ("engine" is AppState._on_screenshot)
Attempts == {<<TRUE, TRUE>>, <<FALSE, TRUE>>, <<FALSE, FALSE>>}
Callbacks == {"none", "engine", "raises"}
CaptureEnvs ==
    { [cursor |-> <<48, 0>>, grabs |-> g, saves |-> sv, cb |-> c] :
        g \in Attempts, sv \in Attempts, c \in Callbacks }

\* lines 113-121 and 181-189: `for attempt in range(2)` around sct.grab
Grabbed(env) == env.grabs[1] \/ env.grabs[2]

\* _run_loop lines 135-159: the save is tried twice; the callback is called
\* after the save that succeeded
LoopOutcome(env) ==
    LET saved == Grabbed(env) /\ (env.saves[1] \/ env.saves[2])
    IN  [saved |-> saved,
         callbacks |-> IF saved /\ env.cb # "none" THEN 1 ELSE 0]

\* what LoopCapture gets of an iteration in the application
LoopGrab(env) == IF LoopOutcome(env).saved THEN Some(env.cursor) ELSE None

\* Faulty variant of the iteration: the callback is called without a try of
\* its own, so that its exception reaches the `except` of the save attempt
\* (154) and the save is tried again
LoopTraceCallbackUnguarded(env) ==
    LET raises == env.cb = "raises"
        first == Grabbed(env) /\ env.saves[1]
        second == Grabbed(env) /\ (~env.saves[1] \/ raises) /\ env.saves[2]
    IN  [grabs |-> IF env.grabs[1] THEN 1 ELSE 2,
         saves |-> IF ~Grabbed(env) THEN 0
                   ELSE IF env.saves[1] /\ ~raises THEN 1 ELSE 2,
         saved |-> first \/ second,
         callbacks |-> IF env.cb = "none" THEN 0
                       ELSE (IF first THEN 1 ELSE 0) + (IF second THEN 1 ELSE 0),
         raised |-> FALSE]

\* _run_loop lines 106-168, one iteration step by step: sct.grab is called
\* until it succeeds, twice at most (113-119), and the iteration is given up
\* when it did not (120-121, 160); img.save is called until it succeeds,
\* twice at most (138-157); on_capture is called after the save that
\* succeeded, inside its own try (144-152), and `break` follows (153);
\* nothing leaves the `try` of line 106 (160-168)
LoopTrace(env) ==
    LET saved == Grabbed(env) /\ (env.saves[1] \/ env.saves[2])
    IN  [grabs |-> IF env.grabs[1] THEN 1 ELSE 2,
         saves |-> IF ~Grabbed(env) THEN 0 ELSE IF env.saves[1] THEN 1 ELSE 2,
         saved |-> saved,
         callbacks |-> IF saved /\ env.cb # "none" THEN 1 ELSE 0,
         raised |-> FALSE]

\* _run_loop, one iteration against what the screen and the disk answer: the
\* callback, when it is the engine's, runs _on_screenshot on the loop thread;
\* the thread then sleeps (the sleep is left out, as in CaptureLoopIteration)
RunLoopBody(env) ==
    LET out == LoopTrace(env)
    IN  /\ capAlive
        /\ ~stopEvent
        /\ IF out.callbacks >= 1 /\ env.cb = "engine"
           THEN OnScreenshot(ScreenshotPath(now), env.cursor, "loop")
           ELSE /\ NoPop
                /\ NoWrite
                /\ UNCHANGED timer
        /\ op' = Some([name |-> "loop_body", env |-> env, grabs |-> out.grabs,
                       saves |-> out.saves, saved |-> out.saved,
                       callbacks |-> out.callbacks, raised |-> out.raised])
        /\ NoResponse
        /\ UNCHANGED <<now, nextId, ext, capAlive, stopEvent,
                       hz, outputBase, clickLogger, loop, joining>>
        /\ UNCHANGED sinkVars
        /\ UNCHANGED ctlVars

\* Faulty variant of capture_once: an exception of the callback loses the path
OnceOutcomeCallbackFatal(env, path) ==
    LET saved == Grabbed(env) /\ env.saves[1]
    IN  [ret |-> IF saved /\ env.cb # "raises" THEN Some(path) ELSE None,
         callbacks |-> IF saved /\ env.cb # "none" THEN 1 ELSE 0,
         raised |-> FALSE]

\* capture_once lines 171-219: the grab is tried twice, img.save once (202);
\* a failure of either is caught at 214 and None returned; after the save the
\* callback is called inside its own try (204-212) and the path returned
OnceOutcome(env, path) ==
    LET saved == Grabbed(env) /\ env.saves[1]
    IN  [ret |-> IF saved THEN Some(path) ELSE None,
         callbacks |-> IF saved /\ env.cb # "none" THEN 1 ELSE 0,
         raised |-> FALSE]

\* a call of capture_once (check_capture.run_once, ext_event): its callback,
\* when it is the engine's, runs _on_screenshot on the calling thread
CaptureOnceCall(env) ==
    LET out == OnceOutcome(env, ScreenshotPath(now))
    IN  /\ IF out.callbacks = 1 /\ env.cb = "engine"
           THEN OnScreenshot(ScreenshotPath(now), env.cursor, "once")
           ELSE /\ NoPop
                /\ NoWrite
                /\ UNCHANGED timer
        /\ op' = Some([name |-> "capture_once", env |-> env, ret |-> out.ret,
                       callbacks |-> out.callbacks, raised |-> out.raised])
        /\ NoResponse
        /\ UNCHANGED <<now, nextId, ext, capAlive, stopEvent,
                       hz, outputBase, clickLogger, loop, joining>>
        /\ UNCHANGED sinkVars
        /\ UNCHANGED ctlVars

\* ScreenCapture.capture_once, called by ext_event: None on failure, else the
\* path saved, after on_capture was called on the request thread
CaptureOnce(grab) ==
    IF grab # None
    THEN OnScreenshot(ScreenshotPath(now), grab[1], "once")
    ELSE /\ NoPop
         /\ NoWrite
         /\ UNCHANGED timer

\* lines 279-288: the request arrives; capture_once is called when the capture
\* is running.  The payload is not looked at before line 291, so it enters the
\* model there.  `took` is history: the entry the capture callback popped.
ExtArrive(grab) ==
    /\ ext.pc = "idle"
    /\ IF capAlive
       THEN /\ CaptureOnce(grab)
            /\ ext' = [pc |-> "match",
                       shot |-> IF grab # None THEN Some(ScreenshotPath(now))
                                ELSE None,
                       took |-> IF Len(pending') < Len(pending)
                                THEN Some(pending[IndexOfId(pending, popped'[1].id)])
                                ELSE None]
       ELSE /\ ext' = [pc |-> "match", shot |-> None, took |-> None]
            /\ NoPop
            /\ NoWrite
            /\ UNCHANGED timer
    /\ NoResponse
    /\ UNCHANGED <<now, nextId, capAlive, stopEvent>>
    /\ NoOp
    /\ UNCHANGED sinkVars
    /\ UNCHANGED ctlVars

\* what ext_event returns
Response(merged) == [ok |-> TRUE, merged |-> merged, screenshot_path |-> ext.shot]

\* lines 318-350: cancel the timer of the entry popped, merge the payload into
\* its record, flush, return merged
ExtMerge(payload, best) ==
    /\ Pop(best, "ext", Some(<<payload.x[1], payload.y[1]>>))
    /\ timer' = Cancel(timer, pending[best].id)
    /\ LogClick(MergeRecord(pending[best].record, payload, ext.shot), "ext",
                pending[best].id)
    /\ resp' = Some(Response(TRUE))

\* lines 354-472: build the ext-only record, flush, return not merged
ExtStandalone(payload, guess) ==
    /\ LogClick(StandaloneRecord(payload, ext.shot, guess), "ext", 0)
    /\ resp' = Some(Response(FALSE))
    /\ NoPop
    /\ UNCHANGED timer

\* lines 291-317: the index of the entry ext_event pops for the payload, 0 for none
ExtFind(pend, tnow, payload) ==
    LET px == Get(payload, "x")
        py == Get(payload, "y")
    IN  IF px # None /\ py # None THEN ExtBest(pend, tnow, px[1], py[1]) ELSE 0

\* lines 291-472: read the clock and the coordinates, scan under the lock and
\* pop the best entry, then merge into it or write the ext-only record; `guess`
\* is what the window lookup of the ext-only path answers
ExtMatch(payload, guess) ==
    /\ ext.pc = "match"
    /\ IF ExtFind(pending, now, payload) # 0
       THEN ExtMerge(payload, ExtFind(pending, now, payload))
       ELSE ExtStandalone(payload, guess)
    /\ handled' = Some(payload)
    /\ ext' = [pc |-> "idle"]
    /\ UNCHANGED <<now, nextId, capAlive, stopEvent>>
    /\ NoOp
    /\ UNCHANGED sinkVars
    /\ UNCHANGED ctlVars

----------------------------------------------------------------------------
(* Time *)

\* a timer thread that is due is scheduled within SlackMs: the clock does not
\* pass deadline + SlackMs while the thread has not run _flush
TimerOnTime(c, t) ==
    timer[c].st \in {"armed", "fired"}
        => t <= timer[c].armedAt + MergeTimeoutMs + SlackMs

\* the clock moves to its next reading
NextTime(t) ==
    LET k == CHOOSE j \in DOMAIN TimePoints : TimePoints[j] = t
    IN  TimePoints[k + 1]

Tick ==
    /\ now # TimePoints[Len(TimePoints)]
    /\ \A c \in DOMAIN timer : TimerOnTime(c, NextTime(now))
    /\ now' = NextTime(now)
    /\ NoPop
    /\ NoWrite
    /\ NoResponse
    /\ UNCHANGED <<nextId, timer, ext, capAlive, stopEvent>>
    /\ NoOp
    /\ UNCHANGED sinkVars
    /\ UNCHANGED ctlVars

----------------------------------------------------------------------------
(* The engine: the listener, the timers, the capture loop and one request   *)
(* thread, over clicks and payloads that differ in where they are           *)
NoGuess == <<None, None>>

WindowContext ==
    [title |-> Some("Report - Google Chrome"), app |-> Some("chrome.exe"),
     pid |-> Some(4242), text |-> Some("copied selection")]

Next ==
    \/ \E pt \in ClickPoints : OnClick(pt, WindowContext)
    \/ \E c \in DOMAIN timer : TimerFire(c)
    \/ \E c \in DOMAIN timer : TimerFlush(c)
    \/ CaptureStart
    \/ \E grab \in Grabs : CaptureLoopIteration(grab)
    \/ \E grab \in Grabs : ExtArrive(grab)
    \/ \E payload \in PointPayloads : ExtMatch(payload, NoGuess)
    \/ Tick

Spec == Init /\ [][Next]_vars

(* The engine with timer threads that run on time: a timer thread runs its   *)
(* _flush before the clock passes the deadline of the timer                  *)
TimerPunctual(c, t) ==
    timer[c].st \in {"armed", "fired"} => t <= timer[c].armedAt + MergeTimeoutMs

PunctualTick ==
    /\ now # TimePoints[Len(TimePoints)]
    /\ \A c \in DOMAIN timer : TimerPunctual(c, NextTime(now))
    /\ now' = NextTime(now)
    /\ NoPop
    /\ NoWrite
    /\ NoResponse
    /\ UNCHANGED <<nextId, timer, ext, capAlive, stopEvent>>
    /\ NoOp
    /\ UNCHANGED sinkVars
    /\ UNCHANGED ctlVars

PunctualNext ==
    \/ \E pt \in ClickPoints : OnClick(pt, WindowContext)
    \/ \E c \in DOMAIN timer : TimerFire(c)
    \/ \E c \in DOMAIN timer : TimerFlush(c)
    \/ CaptureStart
    \/ \E grab \in Grabs : CaptureLoopIteration(grab)
    \/ \E grab \in Grabs : ExtArrive(grab)
    \/ \E payload \in PointPayloads : ExtMatch(payload, NoGuess)
    \/ PunctualTick

PunctualSpec == Init /\ [][PunctualNext]_vars

(* The engine over clicks and payloads that differ in what they carry, at   *)
(* one click point, with the on-demand capture of ext_event as the only      *)
(* capture                                                                   *)
FieldsNext ==
    \/ \E ctx \in ClickContexts : OnClick(<<0, 0>>, ctx)
    \/ \E c \in DOMAIN timer : TimerFire(c)
    \/ \E c \in DOMAIN timer : TimerFlush(c)
    \/ CaptureStart
    \/ \E grab \in {None, Some(<<16, 0>>)} : ExtArrive(grab)
    \/ \E payload \in FieldPayloads, guess \in PidGuesses : ExtMatch(payload, guess)
    \/ Tick

FieldsSpec == Init /\ [][FieldsNext]_vars

(* The engine with the scheduler stopped and started again *)
LifecycleNext ==
    \/ Next
    \/ CaptureStop
    \/ CaptureJoinReturn
    \/ CaptureLoopExit

LifecycleSpec == Init /\ [][LifecycleNext]_vars

(* The capture scheduler and the configuration, on a clock in seconds.  A   *)
(* thread that can run does so before the clock's next reading: the loop   *)
(* thread whose sleep is over and whose event is set ends, and a join that *)
(* is over returns.                                                        *)
SchedTimePoints == <<0, 1000, 2000, 3000, 4000>>

LoopOnTime == capAlive /\ stopEvent => now < loop.wake

JoinOnTime == joining # None => capAlive /\ now < joining[1] + JoinTimeoutMs

SchedNextTime(t) ==
    LET k == CHOOSE j \in DOMAIN SchedTimePoints : SchedTimePoints[j] = t
    IN  SchedTimePoints[k + 1]

SchedTick ==
    /\ now # SchedTimePoints[Len(SchedTimePoints)]
    /\ LoopOnTime
    /\ JoinOnTime
    /\ now' = SchedNextTime(now)
    /\ NoPop
    /\ NoWrite
    /\ NoResponse
    /\ UNCHANGED <<nextId, timer, ext, capAlive, stopEvent>>
    /\ NoOp
    /\ UNCHANGED sinkVars
    /\ UNCHANGED ctlVars

SchedulerNext ==
    \/ \E hzArg \in HzArgs, baseArg \in BaseArgs, made \in BOOLEAN :
          SetConfig(hzArg, baseArg, made)
    \/ CaptureStart
    \/ CaptureStop
    \/ CaptureJoinReturn
    \/ \E grab \in {None, Some(<<48, 0>>)} : RunLoopIteration(grab)
    \/ CaptureLoopExit
    \/ SchedTick

SchedulerSpec == Init /\ [][SchedulerNext]_vars

(* The cadence run of run_capture_test.py (28-33) and check_capture.py and   *)
(* of tests/test_capture_cadence.py (14-18): ScreenCapture at the hz of      *)
(* construction, sc.start(), time.sleep(3.2) or time.sleep(2.2), sc.stop(), *)
(* on a clock of 200 ms steps.  The loop thread begins each iteration within *)
(* IterationSlackMs of the end of its sleep.                                 *)
RunTimes == {2200, 3200}

CadenceLastMs == 5400

\* sc.start(), at the beginning of the run
CadenceStart ==
    /\ now = 0
    /\ ~capAlive
    /\ ~stopEvent
    /\ CaptureStart

\* sc.stop(), when time.sleep has returned
CadenceStop ==
    /\ now \in RunTimes
    /\ capAlive
    /\ CaptureStop

IterationOnTime(t) == capAlive /\ ~stopEvent => t <= loop.wake + IterationSlackMs

\* the clock moves on by 200 ms: not before sc.start(), not past the longest
\* sleep of the run before sc.stop(), and not while a thread is overdue
CadenceTick ==
    /\ now < CadenceLastMs
    /\ now = 0 => capAlive
    /\ now = 3200 => stopEvent
    /\ IterationOnTime(now + 200)
    /\ LoopOnTime
    /\ JoinOnTime
    /\ now' = now + 200
    /\ NoPop
    /\ NoWrite
    /\ NoResponse
    /\ UNCHANGED <<nextId, timer, ext, capAlive, stopEvent>>
    /\ NoOp
    /\ UNCHANGED sinkVars
    /\ UNCHANGED ctlVars

CadenceNext ==
    \/ CadenceStart
    \/ CadenceStop
    \/ CaptureJoinReturn
    \/ \E grab \in {None, Some(<<48, 0>>)} : RunLoopIteration(grab)
    \/ CaptureLoopExit
    \/ CadenceTick

CadenceSpec == Init /\ [][CadenceNext]_vars

(* The engine under the scheduling the code relies on: a timer thread that  *)
(* is due runs, a timer thread that has passed its check runs _flush, and   *)
(* the clock advances.  Clicks are at one point, with the pointer 48 px and *)
(* the extension event 80 px from it, so that each path can take a click.   *)
FairNext ==
    \/ OnClick(<<0, 0>>, WindowContext)
    \/ \E c \in DOMAIN timer : TimerFire(c)
    \/ \E c \in DOMAIN timer : TimerFlush(c)
    \/ CaptureStart
    \/ \E grab \in {None, Some(<<48, 0>>)} : CaptureLoopIteration(grab)
    \/ \E grab \in {None, Some(<<48, 0>>)} : ExtArrive(grab)
    \/ ExtMatch(WithXY(WindowPayload, <<48, 64>>), NoGuess)
    \/ Tick

FairSpec ==
    /\ Init
    /\ [][FairNext]_vars
    /\ \A c \in 1..MaxClicks :
          /\ WF_vars(c \in DOMAIN timer /\ TimerFire(c))
          /\ WF_vars(c \in DOMAIN timer /\ TimerFlush(c))
    /\ WF_vars(Tick)

----------------------------------------------------------------------------
(* logger.py: ClickLogger.log_click as its callers' threads run it, on one  *)
(* ClickLogger and one day's files                                          *)

\* the header row of clicks.csv, and the columns of a data row
CsvColumns == <<"timestamp_utc", "x", "y", "app_name", "process_id", "window_title",
                "display_id", "source", "url_or_path", "doc_path", "text",
                "screenshot_path">>
CsvHeader == [header |-> TRUE, fields |-> CsvColumns]

\* (record.get("text") or "").replace("\n", " ").strip()
CsvText(o) ==
    IF ~TruthyStr(o) THEN ""
    ELSE IF o[1] = "first\nsecond " THEN "first second"
    ELSE o[1]

\* lines 100-113: the row written for a normalised record; None is written as
\* an empty field
CsvRow(line) ==
    [header |-> FALSE,
     fields |-> [i \in DOMAIN CsvColumns |->
                    IF CsvColumns[i] = "text" THEN Some(CsvText(Get(line, "text")))
                    ELSE Get(line, CsvColumns[i])]]

\* the data rows of a csv file
RECURSIVE DataRows(_)
DataRows(file) ==
    IF file = <<>> THEN 0
    ELSE (IF Head(file).header THEN 0 ELSE 1) + DataRows(Tail(file))

\* records log_click is called with: a click as _flush hands it over, and an
\* ext-only record with a text of two lines
SinkRecords ==
    { SetDefault(SetDefault(SetDefault(ListenerRecord(<<0, 0>>, WindowContext, 0),
                                       "screenshot_path", None),
                            "source", Some("os")),
                 "_id", Some(1)),
      StandaloneRecord([text |-> Some("first\nsecond "),
                        url |-> Some("file:///C:/docs/a%20b.pdf")],
                       None, NoGuess) }

\* a sink step leaves the engine, the scheduler and the configuration alone
SinkOnly == UNCHANGED <<appVars, ctlVars>>

\* lines 64-83: the call begins and the record is normalised
SinkCall(t, record) ==
    /\ sinkThread[t].pc = "idle"
    /\ sinkCalls.begun < MaxCalls
    /\ sinkThread' = [sinkThread EXCEPT ![t] =
                         [pc |-> "ndjson", line |-> LogNormalize(record, now),
                          ndjsonOk |-> FALSE]]
    /\ sinkCalls' = [sinkCalls EXCEPT !.begun = @ + 1]
    /\ sinkRet' = None
    /\ UNCHANGED <<ndjsonFile, csvFile, ndjsonLock, csvLock>>
    /\ UNCHANGED utcDay
    /\ SinkOnly

\* line 87: `with self._ndjson_lock`
NdjsonAcquire(t) ==
    /\ sinkThread[t].pc = "ndjson"
    /\ ndjsonLock = 0
    /\ ndjsonLock' = t
    /\ sinkThread' = [sinkThread EXCEPT ![t].pc = "ndjsonHeld"]
    /\ sinkRet' = None
    /\ UNCHANGED <<ndjsonFile, csvFile, csvLock, sinkCalls>>
    /\ UNCHANGED utcDay
    /\ SinkOnly

\* Faulty variants of the sink: an NDJSON write that skips a line the file
\* already holds, and one whose failure ends the call
NdjsonAppendOnce(t, ok) ==
    /\ sinkThread[t].pc = "ndjsonHeld"
    /\ ndjsonFile' = IF ok /\ \A i \in DOMAIN ndjsonFile :
                                ndjsonFile[i] # sinkThread[t].line
                     THEN Append(ndjsonFile, sinkThread[t].line)
                     ELSE ndjsonFile
    /\ ndjsonLock' = 0
    /\ sinkThread' = [sinkThread EXCEPT ![t].pc = "csv", ![t].ndjsonOk = ok]
    /\ sinkCalls' = IF ok THEN sinkCalls
                    ELSE [sinkCalls EXCEPT !.ndjsonFailed = @ + 1]
    /\ sinkRet' = None
    /\ UNCHANGED <<csvFile, csvLock>>
    /\ UNCHANGED utcDay
    /\ SinkOnly

NdjsonAppendOrRaise(t, ok) ==
    /\ sinkThread[t].pc = "ndjsonHeld"
    /\ ndjsonFile' = IF ok THEN Append(ndjsonFile, sinkThread[t].line) ELSE ndjsonFile
    /\ ndjsonLock' = 0
    /\ sinkThread' = IF ok
                     THEN [sinkThread EXCEPT ![t].pc = "csv", ![t].ndjsonOk = ok]
                     ELSE [sinkThread EXCEPT ![t] = [pc |-> "idle"]]
    /\ sinkCalls' = IF ok THEN sinkCalls
                    ELSE [sinkCalls EXCEPT !.ndjsonFailed = @ + 1]
    /\ sinkRet' = IF ok THEN None
                  ELSE Some([thread |-> t, raised |-> TRUE, ndjsonOk |-> FALSE,
                             csv |-> "nothing"])
    /\ UNCHANGED <<csvFile, csvLock>>
    /\ UNCHANGED utcDay
    /\ SinkOnly

\* lines 86-92: the line is appended, or the write fails and the failure is
\* logged; either way the lock is released and the call goes on to the CSV
NdjsonAppend(t, ok) ==
    /\ sinkThread[t].pc = "ndjsonHeld"
    /\ ndjsonFile' = IF ok THEN Append(ndjsonFile, sinkThread[t].line) ELSE ndjsonFile
    /\ ndjsonLock' = 0
    /\ sinkThread' = [sinkThread EXCEPT ![t].pc = "csv", ![t].ndjsonOk = ok]
    /\ sinkCalls' = IF ok THEN sinkCalls
                    ELSE [sinkCalls EXCEPT !.ndjsonFailed = @ + 1]
    /\ sinkRet' = None
    /\ UNCHANGED <<csvFile, csvLock>>
    /\ UNCHANGED utcDay
    /\ SinkOnly

\* line 96: `with self._csv_lock`
CsvAcquire(t) ==
    /\ sinkThread[t].pc = "csv"
    /\ csvLock = 0
    /\ csvLock' = t
    /\ sinkThread' = [sinkThread EXCEPT ![t].pc = "csvHeld"]
    /\ sinkRet' = None
    /\ UNCHANGED <<ndjsonFile, csvFile, ndjsonLock, sinkCalls>>
    /\ UNCHANGED utcDay
    /\ SinkOnly

\* _ensure_csv_header, lines 43-61: a missing or empty file gets the header
\* (mode "w"); any other file is left as it is
EnsureCsvHeader(file) == IF file = <<>> THEN <<CsvHeader>> ELSE file

\* line 97, self._ensure_csv_header(): csv_path is read (the folder of the
\* day it is now) and that file gets its header if it is missing or empty; or
\* the step fails, the failure is logged (115-116), the lock released and
\* log_click returns
CsvEnsureHeader(t, ok) ==
    /\ sinkThread[t].pc = "csvHeld"
    /\ csvFile' = IF ok THEN [csvFile EXCEPT ![utcDay] = EnsureCsvHeader(@)]
                  ELSE csvFile
    /\ csvLock' = IF ok THEN csvLock ELSE 0
    /\ sinkThread' = IF ok THEN [sinkThread EXCEPT ![t].pc = "csvRow"]
                     ELSE [sinkThread EXCEPT ![t] = [pc |-> "idle"]]
    /\ sinkCalls' = IF ok THEN sinkCalls ELSE [sinkCalls EXCEPT !.csvFailed = @ + 1]
    /\ sinkRet' = IF ok THEN None
                  ELSE Some([thread |-> t, raised |-> FALSE,
                             ndjsonOk |-> sinkThread[t].ndjsonOk, csv |-> "nothing"])
    /\ UNCHANGED <<ndjsonFile, ndjsonLock>>
    /\ UNCHANGED utcDay
    /\ SinkOnly

\* lines 98-118: csv_path is read again (the folder of the day it is now),
\* the file opened in append mode and the row written, or the write fails and
\* the failure is logged; the lock is released and log_click returns
CsvAppend(t, ok) ==
    /\ sinkThread[t].pc = "csvRow"
    /\ csvFile' = IF ok
                  THEN [csvFile EXCEPT ![utcDay] = Append(@, CsvRow(sinkThread[t].line))]
                  ELSE csvFile
    /\ csvLock' = 0
    /\ sinkThread' = [sinkThread EXCEPT ![t] = [pc |-> "idle"]]
    /\ sinkCalls' = IF ok THEN sinkCalls ELSE [sinkCalls EXCEPT !.csvFailed = @ + 1]
    /\ sinkRet' = Some([thread |-> t, raised |-> FALSE,
                        ndjsonOk |-> sinkThread[t].ndjsonOk,
                        csv |-> IF ok THEN "ok" ELSE "no row"])
    /\ UNCHANGED <<ndjsonFile, ndjsonLock>>
    /\ UNCHANGED utcDay
    /\ SinkOnly

\* day_folder, lines 19-23: the clock passes UTC midnight, and the paths read
\* from now on lie in the next day's folder
Midnight ==
    /\ utcDay = 1
    /\ utcDay' = 2
    /\ sinkRet' = None
    /\ UNCHANGED <<ndjsonFile, csvFile, ndjsonLock, csvLock, sinkThread, sinkCalls>>
    /\ SinkOnly

SinkNext ==
    \/ \E t \in 1..SinkThreads, record \in SinkRecords : SinkCall(t, record)
    \/ \E t \in 1..SinkThreads : NdjsonAcquire(t)
    \/ \E t \in 1..SinkThreads, ok \in BOOLEAN : NdjsonAppend(t, ok)
    \/ \E t \in 1..SinkThreads : CsvAcquire(t)
    \/ \E t \in 1..SinkThreads, ok \in BOOLEAN : CsvEnsureHeader(t, ok)
    \/ \E t \in 1..SinkThreads, ok \in BOOLEAN : CsvAppend(t, ok)
    \/ Midnight

SinkSpec == Init /\ [][SinkNext]_vars

----------------------------------------------------------------------------
(* log_click while set_config replaces state.logger by a ClickLogger on the  *)
(* same output root: a call runs on the ClickLogger that state.logger was    *)
(* when the call began, under the locks of that object; within the scope of  *)
(* one _csv_lock, _ensure_csv_header looks at the file and then writes it    *)

\* the call begins on the logger in use: lines 64-83
RelogCall(t, record) ==
    /\ sinkThread[t].pc = "idle"
    /\ sinkCalls.begun < MaxCalls
    /\ sinkThread' = [sinkThread EXCEPT ![t] =
                         [pc |-> "ndjson", line |-> LogNormalize(record, now),
                          ndjsonOk |-> FALSE, gen |-> clickLogger.gen]]
    /\ sinkCalls' = [sinkCalls EXCEPT !.begun = @ + 1]
    /\ sinkRet' = None
    /\ UNCHANGED <<ndjsonFile, csvFile, utcDay, ndjsonLock, csvLock>>
    /\ SinkOnly

\* lines 86-92: under the _ndjson_lock of the call's logger the line is
\* appended, or the write fails and is logged
RelogNdjson(t, ok) ==
    /\ sinkThread[t].pc = "ndjson"
    /\ genLocks[sinkThread[t].gen].ndjson = 0
    /\ ndjsonFile' = IF ok THEN Append(ndjsonFile, sinkThread[t].line) ELSE ndjsonFile
    /\ sinkThread' = [sinkThread EXCEPT ![t].pc = "csv", ![t].ndjsonOk = ok]
    /\ sinkCalls' = IF ok THEN sinkCalls
                    ELSE [sinkCalls EXCEPT !.ndjsonFailed = @ + 1]
    /\ sinkRet' = None
    /\ UNCHANGED <<csvFile, utcDay, ndjsonLock, csvLock>>
    /\ UNCHANGED appVars
    /\ UNCHANGED ctlVars

\* line 96: `with self._csv_lock`, the lock of the call's logger
RelogCsvAcquire(t) ==
    /\ sinkThread[t].pc = "csv"
    /\ genLocks[sinkThread[t].gen].csv = 0
    /\ genLocks' = [genLocks EXCEPT ![sinkThread[t].gen].csv = t]
    /\ sinkThread' = [sinkThread EXCEPT ![t].pc = "check"]
    /\ sinkRet' = None
    /\ UNCHANGED <<ndjsonFile, csvFile, utcDay, ndjsonLock, csvLock, sinkCalls>>
    /\ UNCHANGED appVars
    /\ UNCHANGED <<listener, orphans, starting, inFlight, host>>

\* _ensure_csv_header, line 45: is the file missing or empty
RelogHeaderCheck(t) ==
    /\ sinkThread[t].pc = "check"
    /\ sinkThread' = [sinkThread EXCEPT ![t].pc =
                         IF csvFile[utcDay] = <<>> THEN "header" ELSE "row"]
    /\ sinkRet' = None
    /\ UNCHANGED <<ndjsonFile, csvFile, utcDay, ndjsonLock, csvLock, sinkCalls>>
    /\ SinkOnly

\* _ensure_csv_header, lines 46-61: open(path, "w") empties the file, and
\* the header is written
RelogHeaderWrite(t) ==
    /\ sinkThread[t].pc = "header"
    /\ csvFile' = [csvFile EXCEPT ![utcDay] = <<CsvHeader>>]
    /\ sinkThread' = [sinkThread EXCEPT ![t].pc = "row"]
    /\ sinkRet' = None
    /\ UNCHANGED <<ndjsonFile, utcDay, ndjsonLock, csvLock, sinkCalls>>
    /\ SinkOnly

\* lines 98-118: the row is appended, or the write fails and is logged; the
\* lock is released and log_click returns
RelogCsvAppend(t, ok) ==
    /\ sinkThread[t].pc = "row"
    /\ csvFile' = IF ok
                  THEN [csvFile EXCEPT ![utcDay] = Append(@, CsvRow(sinkThread[t].line))]
                  ELSE csvFile
    /\ genLocks' = [genLocks EXCEPT ![sinkThread[t].gen].csv = 0]
    /\ sinkThread' = [sinkThread EXCEPT ![t] = [pc |-> "idle"]]
    /\ sinkCalls' = IF ok THEN sinkCalls ELSE [sinkCalls EXCEPT !.csvFailed = @ + 1]
    /\ sinkRet' = Some([thread |-> t, raised |-> FALSE,
                        ndjsonOk |-> sinkThread[t].ndjsonOk,
                        csv |-> IF ok THEN "ok" ELSE "no row"])
    /\ UNCHANGED <<ndjsonFile, utcDay, ndjsonLock, csvLock>>
    /\ UNCHANGED appVars
    /\ UNCHANGED <<listener, orphans, starting, inFlight, host>>

RelogNext ==
    \/ \E t \in 1..SinkThreads, record \in SinkRecords : RelogCall(t, record)
    \/ \E t \in 1..SinkThreads, ok \in BOOLEAN : RelogNdjson(t, ok)
    \/ \E t \in 1..SinkThreads : RelogCsvAcquire(t)
    \/ \E t \in 1..SinkThreads : RelogHeaderCheck(t)
    \/ \E t \in 1..SinkThreads : RelogHeaderWrite(t)
    \/ \E t \in 1..SinkThreads, ok \in BOOLEAN : RelogCsvAppend(t, ok)
    \/ SetConfig(None, Some(InitOutputBase), TRUE)

RelogSpec == Init /\ [][RelogNext]_vars

----------------------------------------------------------------------------
(* Captures with their retries: capture_once called directly and the loop,  *)
(* each against what the screen and the disk answer, with the engine's      *)
(* clicks and timers                                                        *)
CaptureNext ==
    \/ OnClick(<<0, 0>>, WindowContext)
    \/ \E c \in DOMAIN timer : TimerFire(c)
    \/ \E c \in DOMAIN timer : TimerFlush(c)
    \/ CaptureStart
    \/ \E env \in CaptureEnvs : CaptureLoopIteration(LoopGrab(env))
    \/ \E env \in CaptureEnvs : RunLoopBody(env)
    \/ \E env \in CaptureEnvs : CaptureOnceCall(env)
    \/ Tick

CaptureSpec == Init /\ [][CaptureNext]_vars

----------------------------------------------------------------------------
(* The Monitor Locator, capture.py _get_monitor_index_for_point: a function  *)
(* of the monitor list and the point.  A call is drawn in the initial state  *)
(* and answered by Locate.                                                   *)

LocatorCalls ==
    { [name |-> "locate", monitors |-> m, x |-> x, y |-> y, idx |-> None] :
        m \in MonitorLayouts, x \in LocatorXs, y \in LocatorYs }

LocatorInit ==
    /\ Constructed
    /\ op \in { Some(call) : call \in LocatorCalls }

Locate ==
    /\ op # None
    /\ op[1].name = "locate"
    /\ op[1].idx = None
    /\ op' = Some([op[1] EXCEPT !.idx =
                      Some(GetMonitorIndexForPoint(op[1].monitors, op[1].x, op[1].y))])
    /\ NoPop
    /\ NoWrite
    /\ NoResponse
    /\ UNCHANGED <<now, nextId, timer, ext, capAlive, stopEvent,
                   hz, outputBase, clickLogger, loop, joining>>
    /\ UNCHANGED sinkVars
    /\ UNCHANGED ctlVars

LocatorNext == Locate

LocatorSpec == LocatorInit /\ [][LocatorNext]_vars

----------------------------------------------------------------------------
(* The ext-only record of an event with global coordinates, main.py 357-440: *)
(* a function of the monitor list and the payload.  A call is drawn in the   *)
(* initial state and answered by MapCall.                                    *)

\* two monitors with a gap between them
GapMonitors ==
    << [left |-> 0, top |-> 0, width |-> 3000, height |-> 800],
       [left |-> 0, top |-> 0, width |-> 1000, height |-> 800],
       [left |-> 2000, top |-> 0, width |-> 1000, height |-> 800] >>

MapLayouts == {Monitors, GapMonitors}

\* what the payload says of the device pixel ratio (in hundredths): nothing,
\* 1.0, 2.0, 1.6, 0.5, 0, and 0 or 2.0 under either key
DprParts ==
    { [text |-> Some("g")],
      [text |-> Some("g"), devicePixelRatio |-> Some(100)],
      [text |-> Some("g"), devicePixelRatio |-> Some(200)],
      [text |-> Some("g"), devicePixelRatio |-> Some(160)],
      [text |-> Some("g"), devicePixelRatio |-> Some(50)],
      [text |-> Some("g"), devicePixelRatio |-> Some(0)],
      [text |-> Some("g"), devicePixelRatio |-> Some(0), dpr |-> Some(200)],
      [text |-> Some("g"), dpr |-> Some(200)] }

MapXs == {600, 1500, 2400, 5000}
MapYs == {100, 150, 600}

\* payloads with the x, y and display_id of the page and global coordinates,
\* or global_x alone
MapPayloads ==
    LET page(d) == Put(WithXY(d, <<11, 22>>), "display_id", Some(7))
    IN  { Put(Put(page(d), "global_x", Some(gx)), "global_y", Some(gy)) :
            d \in DprParts, gx \in MapXs, gy \in MapYs }
        \cup { Put(page(d), "global_x", Some(600)) : d \in DprParts }

MapCalls ==
    { [name |-> "map", monitors |-> m, payload |-> payload, record |-> None] :
        m \in MapLayouts, payload \in MapPayloads }

MapperInit ==
    /\ Constructed
    /\ op \in { Some(call) : call \in MapCalls }

\* ext_event, lines 354-440, with no pending click to merge into
MapCall ==
    /\ op # None
    /\ op[1].name = "map"
    /\ op[1].record = None
    /\ op' = Some([op[1] EXCEPT !.record =
                      Some(StandaloneRecordOn(op[1].monitors, op[1].payload,
                                              None, NoGuess))])
    /\ NoPop
    /\ NoWrite
    /\ NoResponse
    /\ UNCHANGED <<now, nextId, timer, ext, capAlive, stopEvent,
                   hz, outputBase, clickLogger, loop, joining>>
    /\ UNCHANGED sinkVars
    /\ UNCHANGED ctlVars

MapperNext == MapCall

MapperSpec == MapperInit /\ [][MapperNext]_vars

----------------------------------------------------------------------------
(* listener.py: GlobalClickListener, its pynput listener and the handler the *)
(* listener thread calls for every mouse button event                        *)

\* the pynput listeners start() may create
MaxListeners == 2

\* what pynput reports: str(button), pressed, and where handling the event
\* raises: nowhere, while the context of the click is gathered (before the
\* callback is called), or in the callback, at Timer.start (main.py 137),
\* after the entry is stored
MouseEvents ==
    { [button |-> b, pressed |-> p, fault |-> f] :
        b \in {"Button.left", "Button.right", "Button.middle"},
        p \in BOOLEAN,
        f \in {"none", "context", "callback"} }

\* Faulty variant of the handler: without the try of line 241, an exception
\* leaves the handler
HandleClickUnguarded(ev) ==
    LET handled_ == ev.pressed /\ ev.button = "Button.left"
    IN  [calls |-> handled_ /\ ev.fault # "context",
         raised |-> handled_ /\ ev.fault # "none"]

\* start.on_click, lines 240-366: a release or another button returns at
\* once (242-243); else the context is gathered and config.on_click called
\* (363); an exception of either is caught and logged (364-366)
HandleClick(ev) ==
    LET handled_ == ev.pressed /\ ev.button = "Button.left"
    IN  [calls |-> handled_ /\ ev.fault # "context",
         raised |-> FALSE]

\* GlobalClickListener.start, lines 237-374: nothing when the listener runs;
\* else a listener is created and started, and when that raises _listener is
\* None again and the exception goes to the caller.  The listener's `running`
\* is taken to hold from its start() to its stop(); one request thread at a
\* time is in start() or stop()
ListenerStart(ok) ==
    /\ LET runs == listener.obj # 0 /\ listener.obj \in listener.running
           l == listener.made + 1
       IN  /\ ~runs => listener.made < MaxListeners
           /\ listener' =
                 IF runs THEN listener
                 ELSE IF ok THEN [obj |-> l, running |-> listener.running \cup {l},
                                  made |-> l]
                 ELSE [listener EXCEPT !.obj = 0]
           /\ op' = Some([name |-> "listener_start", running |-> runs,
                          raised |-> ~runs /\ ~ok])
    /\ NoPop
    /\ NoWrite
    /\ NoResponse
    /\ UNCHANGED <<now, nextId, timer, ext, capAlive, stopEvent,
                   hz, outputBase, clickLogger, loop, joining>>
    /\ UNCHANGED sinkVars
    /\ UNCHANGED <<orphans, starting, genLocks, inFlight, host>>

\* GlobalClickListener.stop, lines 368-371
ListenerStop ==
    /\ listener' = IF listener.obj # 0
                   THEN [listener EXCEPT !.obj = 0,
                                         !.running = @ \ {listener.obj}]
                   ELSE listener
    /\ op' = Some([name |-> "listener_stop"])
    /\ NoPop
    /\ NoWrite
    /\ NoResponse
    /\ UNCHANGED <<now, nextId, timer, ext, capAlive, stopEvent,
                   hz, outputBase, clickLogger, loop, joining>>
    /\ UNCHANGED sinkVars
    /\ UNCHANGED <<orphans, starting, genLocks, inFlight, host>>

\* the thread of listener l handles one event: the handler, and inside it
\* AppState._on_click (main.py 111-137), which stores the entry and then
\* starts its timer; a listener thread whose handler raised ends
ListenerEvent(l, ev) ==
    LET out == HandleClick(ev)
        record_id == nextId
        r0 == ListenerRecord(<<0, 0>>, WindowContext, now)
        r1 == SetDefault(r0, "screenshot_path", None)
        r2 == SetDefault(r1, "source", Some("os"))
        record == SetDefault(r2, "_id", Some(record_id))
    IN  /\ l \in listener.running
        /\ out.calls => nextId <= MaxClicks /\ now <= LastClickMs
        /\ IF out.calls
           THEN /\ pending' = Append(pending, [id |-> record_id, record |-> record,
                                               created_at |-> now])
                /\ timer' = Append(timer,
                                   IF ev.fault = "callback"
                                   THEN [st |-> "unstarted", armedAt |-> 0]
                                   ELSE [st |-> "armed", armedAt |-> now])
                /\ removed' = Append(removed, 0)
                /\ flushed' = Append(flushed, 0)
                /\ nextId' = nextId + 1
           ELSE UNCHANGED <<pending, timer, removed, flushed, nextId>>
        /\ listener' = IF out.raised
                       THEN [listener EXCEPT !.running = @ \ {l}]
                       ELSE listener
        /\ op' = Some([name |-> "mouse", ev |-> ev, listener |-> l,
                       stored |-> Len(pending') - Len(pending),
                       raised |-> out.raised])
        /\ popped' = None
        /\ lastLine' = None
        /\ NoResponse
        /\ UNCHANGED <<now, ext, capAlive, stopEvent,
                       hz, outputBase, clickLogger, loop, joining>>
        /\ UNCHANGED sinkVars
        /\ UNCHANGED <<orphans, starting, genLocks, inFlight, host>>

ListenerNext ==
    \/ \E ok \in BOOLEAN : ListenerStart(ok)
    \/ ListenerStop
    \/ \E l \in 1..MaxListeners, ev \in MouseEvents : ListenerEvent(l, ev)
    \/ \E c \in DOMAIN timer : TimerFire(c)
    \/ \E c \in DOMAIN timer : TimerFlush(c)
    \/ Tick

ListenerSpec == Init /\ [][ListenerNext]_vars

----------------------------------------------------------------------------
(* ScreenCapture.start and stop called by request threads at the same time  *)
(* (POST /start and POST /stop run on the server's worker threads): start   *)
(* takes no lock, so that the threads interleave between its statements     *)

\* the loop threads that may be left without a reference
MaxOrphans == 2

\* line 88: `if self._thread and self._thread.is_alive(): return`
StartCheck(t) ==
    /\ starting.pc[t] = "idle"
    /\ orphans < MaxOrphans
    /\ starting' = IF capAlive THEN starting
                   ELSE [starting EXCEPT !.pc[t] = "clear"]
    /\ op' = IF capAlive THEN Some([name |-> "start", running |-> TRUE])
             ELSE None
    /\ NoPop
    /\ NoWrite
    /\ NoResponse
    /\ UNCHANGED <<now, nextId, timer, ext, capAlive, stopEvent,
                   hz, outputBase, clickLogger, loop, joining>>
    /\ UNCHANGED sinkVars
    /\ UNCHANGED <<listener, orphans, genLocks, inFlight, host>>

\* line 90: self._stop_event.clear()
StartClear(t) ==
    /\ starting.pc[t] = "clear"
    /\ stopEvent' = FALSE
    /\ starting' = [starting EXCEPT !.pc[t] = "create"]
    /\ op' = None
    /\ NoPop
    /\ NoWrite
    /\ NoResponse
    /\ UNCHANGED <<now, nextId, timer, ext, capAlive,
                   hz, outputBase, clickLogger, loop, joining>>
    /\ UNCHANGED sinkVars
    /\ UNCHANGED <<listener, orphans, genLocks, inFlight, host>>

\* line 91: self._thread = Thread(...); a live thread that _thread referred
\* to goes on running without a reference
StartCreate(t) ==
    /\ starting.pc[t] = "create"
    /\ orphans' = IF capAlive THEN orphans + 1 ELSE orphans
    /\ capAlive' = FALSE
    /\ loop' = NoLoop
    /\ starting' = [starting EXCEPT !.pc[t] = "launch", !.unstarted = TRUE]
    /\ op' = None
    /\ NoPop
    /\ NoWrite
    /\ NoResponse
    /\ UNCHANGED <<now, nextId, timer, ext, stopEvent,
                   hz, outputBase, clickLogger, joining>>
    /\ UNCHANGED sinkVars
    /\ UNCHANGED <<listener, genLocks, inFlight, host>>

\* line 92: self._thread.start(), which raises RuntimeError for a Thread that
\* was started before
StartLaunch(t) ==
    /\ starting.pc[t] = "launch"
    /\ capAlive' = IF starting.unstarted THEN TRUE ELSE capAlive
    /\ starting' = [starting EXCEPT !.pc[t] = "idle", !.unstarted = FALSE]
    /\ op' = Some([name |-> "start", running |-> FALSE,
                   raised |-> ~starting.unstarted])
    /\ NoPop
    /\ NoWrite
    /\ NoResponse
    /\ UNCHANGED <<now, nextId, timer, ext, stopEvent,
                   hz, outputBase, clickLogger, loop, joining>>
    /\ UNCHANGED sinkVars
    /\ UNCHANGED <<listener, orphans, genLocks, inFlight, host>>

\* line 97: join raises RuntimeError for a Thread that was not started
CaptureJoinRaise ==
    /\ joining # None
    /\ starting.unstarted
    /\ joining' = None
    /\ op' = Some([name |-> "stopped", raised |-> TRUE])
    /\ NoPop
    /\ NoWrite
    /\ NoResponse
    /\ UNCHANGED <<now, nextId, timer, ext, capAlive, stopEvent,
                   hz, outputBase, clickLogger, loop>>
    /\ UNCHANGED sinkVars
    /\ UNCHANGED ctlVars

\* _run_loop on a thread without a reference: an iteration, and its end when
\* the event is set
OrphanLoopIteration(grab) ==
    /\ orphans > 0
    /\ ~stopEvent
    /\ LoopCapture(grab)
    /\ NoResponse
    /\ UNCHANGED <<now, nextId, ext, capAlive, stopEvent>>
    /\ NoOp
    /\ UNCHANGED sinkVars
    /\ UNCHANGED ctlVars

OrphanLoopExit ==
    /\ orphans > 0
    /\ stopEvent
    /\ orphans' = orphans - 1
    /\ NoPop
    /\ NoWrite
    /\ NoResponse
    /\ UNCHANGED <<now, nextId, timer, ext, capAlive, stopEvent>>
    /\ NoOp
    /\ UNCHANGED sinkVars
    /\ UNCHANGED <<listener, starting, genLocks, inFlight, host>>

StartRaceNext ==
    \/ \E t \in 1..Starters : StartCheck(t)
    \/ \E t \in 1..Starters : StartClear(t)
    \/ \E t \in 1..Starters : StartCreate(t)
    \/ \E t \in 1..Starters : StartLaunch(t)
    \/ CaptureStop
    \/ ~starting.unstarted /\ CaptureJoinReturn
    \/ CaptureJoinRaise
    \/ \E grab \in {None, Some(<<48, 0>>)} : CaptureLoopIteration(grab)
    \/ CaptureLoopExit
    \/ \E grab \in {None, Some(<<48, 0>>)} : OrphanLoopIteration(grab)
    \/ OrphanLoopExit
    \/ OnClick(<<0, 0>>, WindowContext)
    \/ \E c \in DOMAIN timer : TimerFire(c)
    \/ \E c \in DOMAIN timer : TimerFlush(c)
    \/ Tick

StartRaceSpec == Init /\ [][StartRaceNext]_vars

----------------------------------------------------------------------------
(* POST /stop (main.py 190-194): ScreenCapture.stop, then                   *)
(* GlobalClickListener.stop, while clicks are pending; the timers and the   *)
(* request thread of ext_event go on, and the loop thread finishes the      *)
(* iteration it is in.  Screenshots come from the loop thread; the capture  *)
(* inside ext_event saves none.  Scheduling as in FairSpec.                 *)

\* _run_loop line 105: the loop thread finds the event clear and begins an
\* iteration
LoopEnter ==
    /\ capAlive
    /\ ~stopEvent
    /\ ~inFlight
    /\ inFlight' = TRUE
    /\ NoPop
    /\ NoWrite
    /\ NoResponse
    /\ UNCHANGED <<now, nextId, timer, ext, capAlive, stopEvent>>
    /\ NoOp
    /\ UNCHANGED sinkVars
    /\ UNCHANGED <<listener, orphans, starting, genLocks, host>>

\* _run_loop lines 106-168: the capture of the iteration begun, whatever
\* became of the event since
LoopFinish(grab) ==
    /\ capAlive
    /\ inFlight
    /\ inFlight' = FALSE
    /\ LoopCapture(grab)
    /\ NoResponse
    /\ UNCHANGED <<now, nextId, ext, capAlive, stopEvent>>
    /\ NoOp
    /\ UNCHANGED sinkVars
    /\ UNCHANGED <<listener, orphans, starting, genLocks, host>>

\* the press of the left button, handled without a fault
LeftPress == [button |-> "Button.left", pressed |-> TRUE, fault |-> "none"]

\* POST /start, main.py 183-187: `state.capture.start()`, then
\* `state.listener.start()`; here the service is started once
PostStartCapture ==
    /\ listener.made = 0
    /\ ~capAlive
    /\ CaptureStart

PostStartListener ==
    /\ listener.made = 0
    /\ capAlive
    /\ ListenerStart(TRUE)

\* POST /stop, main.py 190-194: `state.capture.stop()`, which returns when the
\* loop thread has ended or the join has timed out, then
\* `state.listener.stop()`
PostStopCapture ==
    /\ listener.obj # 0
    /\ ~stopEvent
    /\ CaptureStop

PostStopListener ==
    /\ stopEvent
    /\ joining = None
    /\ listener.obj # 0
    /\ ListenerStop

StopNext ==
    \/ PostStartCapture
    \/ PostStartListener
    \/ \E l \in 1..MaxListeners : ListenerEvent(l, LeftPress)
    \/ \E c \in DOMAIN timer : TimerFire(c)
    \/ \E c \in DOMAIN timer : TimerFlush(c)
    \/ LoopEnter
    \/ \E grab \in {None, Some(<<48, 0>>)} : LoopFinish(grab)
    \/ PostStopCapture
    \/ CaptureJoinReturn
    \/ ~inFlight /\ CaptureLoopExit
    \/ PostStopListener
    \/ ExtArrive(None)
    \/ ExtMatch(WithXY(WindowPayload, <<48, 64>>), NoGuess)
    \/ Tick

StopSpec ==
    /\ Init
    /\ [][StopNext]_vars
    /\ \A c \in 1..MaxClicks :
          /\ WF_vars(c \in DOMAIN timer /\ TimerFire(c))
          /\ WF_vars(c \in DOMAIN timer /\ TimerFlush(c))
    /\ WF_vars(Tick)

----------------------------------------------------------------------------
(* native_host.py: the native messaging host, a process that reads framed   *)
(* messages from stdin until stdin is closed or too many reads failed       *)

\* the reads followed
MaxReads == 7

\* main line 268: `max_errors = 5`
MaxErrors == 5

\* What read_message meets (lines 30-61):
\*   "closed"  read(4) returns nothing (34): sys.exit(0)
\*   "bad"     a header of 1 to 3 bytes (41), content that cannot be read or
\*             decoded (48), text that is not JSON (55), or any other
\*             exception (59): None is returned
\*   "null"    a message whose JSON text is null: json.loads returns None (54)
\*   "value"   a message with any other JSON value, which is returned
Reads == {"closed", "bad", "null", "value"}

\* What write_log and send_message do with a message read (main 286-295):
\* both succeed; write_log raises and the error reply is sent; send_message
\* raises both times
Processings == {"ok", "write_raises", "send_raises"}

\* read_message, lines 30-61: the exit status if it ends the process
\* (SystemExit is not an Exception, so it passes line 59 and main's line
\* 297), else what it returns: None, or the value parsed
ReadMessage(met) ==
    IF met = "closed" THEN [exit |-> Some(0), ret |-> None]
    ELSE IF met = "value" THEN [exit |-> None, ret |-> Some("value")]
    ELSE [exit |-> None, ret |-> None]

\* main, lines 270-302: one turn of `while True`.  Nothing in the outer `try`
\* raises outside read_message, write_log and send_message, which are all
\* caught before line 297.
HostTurn(met, proc) ==
    LET read == ReadMessage(met)
        count == host.error_count + 1
    IN  /\ host.status = "running"
        /\ Len(host.trail) < MaxReads
        /\ host' =
              IF read.exit # None
              THEN [host EXCEPT !.status = "exit0", !.trail = Append(@, met),
                                !.reply = None]
              ELSE IF read.ret = None
              THEN [host EXCEPT !.error_count = count,
                                !.status = IF count >= MaxErrors THEN "exit1"
                                           ELSE "running",
                                !.trail = Append(@, met),
                                !.reply = None]
              ELSE [host EXCEPT !.error_count = 0,
                                !.trail = Append(@, met),
                                !.reply = CASE proc = "ok" -> Some("ok")
                                            [] proc = "write_raises" -> Some("error")
                                            [] proc = "send_raises" -> None,
                                !.logged = IF proc = "write_raises" THEN @
                                           ELSE @ + 1]
        /\ UNCHANGED <<appVars, sinkVars>>
        /\ UNCHANGED <<listener, orphans, starting, genLocks, inFlight>>

HostNext == \E met \in Reads, proc \in Processings : HostTurn(met, proc)

HostSpec == Init /\ [][HostNext]_vars

----------------------------------------------------------------------------
(* Properties *)

\* the entry of click id in a pending set that holds it
EntryOf(pend, id) == pend[IndexOfId(pend, id)]

\* the squared distance of a pending entry from a point
EntryDist2(entry, pt) == Dist2(entry.record.x[1], entry.record.y[1], pt[1], pt[2])

\* the age of a pending entry at time t
Age(entry, t) == t - entry.created_at

\* the last step was path `by` popping a click
PoppedBy(p, by) == p # None /\ p[1].by \in by

\* C1: under every interleaving of the timer's _flush, the extension match
\* and the screenshot match, a click id is popped from the pending set at most
\* once and log_click is called for it at most once, by the path that popped
\* it in the step that popped it; an id still pending was never popped, and a
\* path that finds the id gone writes nothing (no call without a pop)
RemovedAndFlushedAtMostOnce ==
    /\ \A c \in DOMAIN removed :
          /\ removed[c] <= 1
          /\ flushed[c] <= removed[c]
          /\ c \in PendingIds => removed[c] = 0
    /\ lastLine # None /\ lastLine[1].id # 0 =>
          /\ popped # None
          /\ popped[1].id = lastLine[1].id
          /\ popped[1].by = lastLine[1].by

\* C1 witness: a timer thread that has passed its check of `finished` while
\* its click was popped and flushed by another path
TimerLostTheRace ==
    \E c \in DOMAIN timer :
        /\ timer[c].st = "fired"
        /\ c \notin PendingIds
        /\ removed[c] = 1
        /\ flushed[c] = 1

\* C2: every click handed to _on_click is eventually out of the pending set
\* with exactly one record written for it, and stays so
EveryClickPersistedOnce ==
    \A c \in 1..MaxClicks :
        (nextId > c) ~> [](/\ c \notin PendingIds
                           /\ c \in DOMAIN flushed
                           /\ flushed[c] = 1)

\* C2 witness: a click that no event matched, written by its timer
ClickWrittenByTimer ==
    /\ lastLine # None
    /\ lastLine[1].by = "timer"
    /\ flushed[lastLine[1].id] = 1
    /\ lastLine[1].id \notin PendingIds

\* the pending set as the request found it, when nothing but the request's own
\* capture callback has popped from it since
WithTaken == pending \o ext.took

\* the payload has both coordinates
HasXY(payload) == Get(payload, "x") # None /\ Get(payload, "y") # None

\* an entry within mergeDistance of the payload and younger than mergeTimeout
YoungAndNear(entry, t, payload) ==
    /\ HasXY(payload)
    /\ EntryDist2(entry, <<payload.x[1], payload.y[1]>>) <= MergeDistancePx * MergeDistancePx
    /\ Age(entry, t) < MergeTimeoutMs

\* C3: an extension event within mergeDistance of a pending click younger
\* than mergeTimeout is merged: the request returns merged=true and writes
\* one record with source ext, and its on-demand capture has written no
\* record of its own for the click
ExtEventMergesEligibleClick ==
    [][ (handled' # None
         /\ \E i \in DOMAIN WithTaken : YoungAndNear(WithTaken[i], now, handled'[1]))
        => /\ resp'[1].merged = TRUE
           /\ lastLine'[1].line.source = Some("ext")
           /\ ext.took = None ]_vars

\* C4: a click flushed by its deadline timer is flushed no earlier than
\* mergeTimeout after the timer was armed and no later than mergeTimeout plus
\* the scheduling slack, as a record with source os whose text, url_or_path,
\* doc_path and screenshot_path are those of the click (None when it has none)
TimerFlushInWindowUnchanged ==
    [][ PoppedBy(popped', {"timer"})
        => LET c == popped'[1].id
               rec == EntryOf(pending, c).record
               line == lastLine'[1].line
           IN  /\ now >= timer[c].armedAt + MergeTimeoutMs
               /\ now <= timer[c].armedAt + MergeTimeoutMs + SlackMs
               /\ lastLine'[1].id = c
               /\ line.source = Some("os")
               /\ \A k \in {"text", "url_or_path", "doc_path", "screenshot_path"} :
                      Get(line, k) = Get(rec, k)
               /\ line.url_or_path = None
               /\ line.screenshot_path = None ]_vars

\* C4 witness: a click that carried no text, flushed by its timer at the end
\* of the slack, 1750 ms after it was stored at 0
TimerFlushAtEndOfSlack ==
    /\ PoppedBy(popped, {"timer"})
    /\ lastLine # None
    /\ lastLine[1].line.text = None
    /\ lastLine[1].line.timestamp_utc = Some(0)
    /\ now = MergeTimeoutMs + SlackMs

\* an entry ext_event's scan accepts for the point pt at time t: within
\* mergeDistance and not older than mergeTimeout
ExtAccepts(entry, t, pt) ==
    /\ EntryDist2(entry, pt) <= MergeDistancePx * MergeDistancePx
    /\ Age(entry, t) <= MergeTimeoutMs

\* an entry _on_screenshot's scan accepts for the cursor pt at time t: within
\* screenshotAttachDistance and not older than screenshotAttachTimeout
ShotAccepts(entry, t, pt) ==
    /\ EntryDist2(entry, pt) <= ScreenshotAttachDistance * ScreenshotAttachDistance
    /\ Age(entry, t) <= AttachTimeoutMs

\* C5: the click ext_event merges into is an eligible click nearest to the
\* event's (x, y); of the eligible clicks at that distance it is the one
\* created earliest (the first stored)
ExtSelectsNearestThenEarliest ==
    [][ PoppedBy(popped', {"ext"})
        => LET pt == popped'[1].near[1]
               sel == EntryOf(pending, popped'[1].id)
           IN  /\ ExtAccepts(sel, now, pt)
               /\ \A j \in DOMAIN pending :
                     ExtAccepts(pending[j], now, pt)
                     => \/ EntryDist2(sel, pt) < EntryDist2(pending[j], pt)
                        \/ /\ EntryDist2(sel, pt) = EntryDist2(pending[j], pt)
                           /\ sel.created_at <= pending[j].created_at
                           /\ sel.id <= pending[j].id ]_vars

\* C5 witness: the event was merged into one click while a click created
\* later, eligible and at the same distance, stays pending
ExtTieLeftLaterClick ==
    /\ PoppedBy(popped, {"ext"})
    /\ lastLine # None
    /\ \E j \in DOMAIN pending :
          /\ ExtAccepts(pending[j], now, popped[1].near[1])
          /\ EntryDist2(pending[j], popped[1].near[1])
                = Dist2(lastLine[1].line.x[1], lastLine[1].line.y[1],
                        popped[1].near[1][1], popped[1].near[1][2])
          /\ pending[j].created_at > lastLine[1].line.timestamp_utc[1]

Prefer(a, b) == IF a # None /\ a[1] # "" THEN a ELSE b
PreferNumber(a, b) == IF a # None /\ a[1] # 0 THEN a ELSE b

\* what C7 says of every extension match but the url: source ext; text,
\* window_title and display_id the extension's when supplied and the click's
\* otherwise; x, y and timestamp the click's; the timer no longer waiting and
\* exactly one record written for the click
MergedBut(rec, payload, line, c) ==
    /\ line.source = Some("ext")
    /\ line.text = Prefer(Get(payload, "text"), Get(rec, "text"))
    /\ line.window_title = Prefer(Get(payload, "title"), Get(rec, "window_title"))
    /\ line.display_id = PreferNumber(Get(payload, "display_id"),
                                      Get(rec, "display_id"))
    /\ line.x = rec.x
    /\ line.y = rec.y
    /\ line.timestamp_utc = rec.timestamp_utc
    /\ timer'[c].st # "armed"
    /\ lastLine'[1].id = c
    /\ flushed'[c] = 1

\* C7 as stated: on an extension match the record has source ext, takes text,
\* url_or_path, window_title and display_id from the extension when it
\* supplies a (non-empty) value and from the click otherwise, keeps the
\* click's x, y and timestamp, and the timer is cancelled
ExtMergeTakesSuppliedValues ==
    [][ PoppedBy(popped', {"ext"})
        => LET rec == EntryOf(pending, popped'[1].id).record
               payload == handled'[1]
               line == lastLine'[1].line
           IN  /\ MergedBut(rec, payload, line, popped'[1].id)
               /\ line.url_or_path
                     = Prefer(Get(payload, "url"), Get(rec, "url_or_path")) ]_vars

\* C7 amended: as stated, where "supplies" means a non-empty string or a
\* non-zero number, and except that for a file:// url the record's
\* url_or_path and doc_path are the local path decoded from the url
ExtMergeTakesSuppliedValuesOrPath ==
    [][ PoppedBy(popped', {"ext"})
        => LET rec == EntryOf(pending, popped'[1].id).record
               payload == handled'[1]
               line == lastLine'[1].line
               url == Get(payload, "url")
           IN  /\ MergedBut(rec, payload, line, popped'[1].id)
               /\ IF IsFileUrl(url)
                  THEN /\ line.url_or_path = UrlToPath(url)
                       /\ Get(line, "doc_path") = UrlToPath(url)
                  ELSE /\ line.url_or_path = Prefer(url, Get(rec, "url_or_path"))
                       /\ Get(line, "doc_path") = Get(rec, "doc_path") ]_vars

\* C7 witness: a click merged with an event that carries a file:// url
ExtMergedFileUrl ==
    /\ PoppedBy(popped, {"ext"})
    /\ handled # None
    /\ IsFileUrl(Get(handled[1], "url"))
    /\ lastLine # None
    /\ lastLine[1].line.url_or_path = Some("C:/docs/a b.pdf")

\* C8: when ext_event finds no eligible pending click it writes exactly one
\* record, standalone with source ext and the payload's text, returns
\* merged=false, and the request leaves the pending set and the timers as
\* they were
ExtNoMatchLeavesPending ==
    [][ (handled' # None /\ ExtFind(pending, now, handled'[1]) = 0)
        => /\ resp'[1].merged = FALSE
           /\ lastLine'[1].id = 0
           /\ lastLine'[1].line.source = Some("ext")
           /\ lastLine'[1].line.text = Get(handled'[1], "text")
           /\ pending' = pending
           /\ timer' = timer
           /\ ext.took = None ]_vars

\* C9: a payload missing x or y is answered, no pending click is removed by
\* the request, and exactly one record is written for it, with source ext and
\* the text and title the payload supplied, and its x and y when it carries
\* no global coordinates
ExtPartialPayloadTouchesNothing ==
    [][ (handled' # None /\ ~HasXY(handled'[1]))
        => LET payload == handled'[1]
               line == lastLine'[1].line
           IN  /\ resp'[1].ok = TRUE
               /\ resp'[1].merged = FALSE
               /\ popped' = None
               /\ pending' = pending
               /\ ext.took = None
               /\ line.source = Some("ext")
               /\ line.text = Get(payload, "text")
               /\ line.window_title = Get(payload, "title")
               /\ Get(payload, "global_x") = None
                  => /\ line.x = Get(payload, "x")
                     /\ line.y = Get(payload, "y") ]_vars

\* what C10 says of a screenshot attach apart from the age of the click: the
\* click is within screenshotAttachDistance of the cursor, the nearest such
\* (of those at that distance the earliest created), its timer no longer
\* waits, and the one record written is the click's with screenshot_path set
AttachedBut(sel, pt, line, eligible(_)) ==
    /\ EntryDist2(sel, pt) <= ScreenshotAttachDistance * ScreenshotAttachDistance
    /\ \A j \in DOMAIN pending :
          eligible(pending[j])
          => \/ EntryDist2(sel, pt) < EntryDist2(pending[j], pt)
             \/ /\ EntryDist2(sel, pt) = EntryDist2(pending[j], pt)
                /\ sel.created_at <= pending[j].created_at
                /\ sel.id <= pending[j].id
    /\ sel.id \notin PendingIds'
    /\ timer'[sel.id].st # "armed"
    /\ lastLine'[1].id = sel.id
    /\ flushed'[sel.id] = 1
    /\ line.screenshot_path = Some(ScreenshotPath(now))
    /\ popped'[1].by = "once" => ext'.shot = line.screenshot_path
    /\ line.source = Some("os")
    /\ LET rec == sel.record
           written == line
       IN  /\ \A k \in DOMAIN rec \ {"screenshot_path"} : written[k] = rec[k]
           /\ \A k \in DOMAIN written \ DOMAIN rec : written[k] = None

\* C10 as stated: _on_screenshot attaches to the nearest click (ties to the
\* earliest created) among those within screenshotAttachDistance and younger
\* than screenshotAttachTimeout
ShotAttachesNearestYounger ==
    [][ PoppedBy(popped', {"loop", "once"})
        => LET sel == EntryOf(pending, popped'[1].id)
               pt == popped'[1].near[1]
               Younger(e) == /\ EntryDist2(e, pt) <= ScreenshotAttachDistance
                                                     * ScreenshotAttachDistance
                             /\ Age(e, now) < AttachTimeoutMs
           IN  /\ Age(sel, now) < AttachTimeoutMs
               /\ AttachedBut(sel, pt, lastLine'[1].line, Younger) ]_vars

\* C10 amended: the same with "not older than screenshotAttachTimeout" (a
\* click exactly screenshotAttachTimeout old is still attached to)
ShotAttachesNearestNotOlder ==
    [][ PoppedBy(popped', {"loop", "once"})
        => LET sel == EntryOf(pending, popped'[1].id)
               pt == popped'[1].near[1]
               NotOlder(e) == ShotAccepts(e, now, pt)
           IN  /\ Age(sel, now) <= AttachTimeoutMs
               /\ AttachedBut(sel, pt, lastLine'[1].line, NotOlder) ]_vars

\* C10 witness: a screenshot of the capture loop attached to one click while
\* a click created later, acceptable and at the same distance, stays pending
ShotTieLeftLaterClick ==
    /\ PoppedBy(popped, {"loop"})
    /\ lastLine # None
    /\ lastLine[1].line.screenshot_path = Some(ScreenshotPath(now))
    /\ \E j \in DOMAIN pending :
          /\ ShotAccepts(pending[j], now, popped[1].near[1])
          /\ EntryDist2(pending[j], popped[1].near[1])
                = Dist2(lastLine[1].line.x[1], lastLine[1].line.y[1],
                        popped[1].near[1][1], popped[1].near[1][2])
          /\ pending[j].created_at > lastLine[1].line.timestamp_utc[1]

\* a step in which a screenshot taken with the pointer at `cursor` is handed
\* to _on_screenshot, by the capture loop or by ext_event's capture_once
CaptureEventAt(cursor) ==
    \/ CaptureLoopIteration(Some(cursor))
    \/ capAlive /\ ExtArrive(Some(cursor))

\* C11: when _on_screenshot is called and no pending click is within
\* screenshotAttachDistance of the cursor and at most screenshotAttachTimeout
\* old, the pending set with every record in it and every timer are unchanged
\* and nothing is written to the sink
ShotWithoutEligibleClickIsNoOp ==
    [][ \A cursor \in CursorPoints :
           (/\ CaptureEventAt(cursor)
            /\ \A i \in DOMAIN pending : ~ShotAccepts(pending[i], now, cursor))
           => /\ pending' = pending
              /\ timer' = timer
              /\ lastLine' = None
              /\ flushed' = flushed
              /\ removed' = removed ]_vars

\* C11 witness: ext_event's capture_once has saved a screenshot and called
\* _on_screenshot while a click was pending, out of reach of the cursor or too
\* old, and the click is still pending, its timer as it was, nothing written
ShotLeftPendingClick ==
    /\ ext.pc = "match"
    /\ ext.shot # None
    /\ ext.took = None
    /\ pending # <<>>
    /\ popped = None
    /\ lastLine = None

\* C12: after _on_click, ext_event or _on_screenshot returns, the pending
\* set holds no entry older than its deadline, that is stored more than
\* mergeTimeout ago, whether or not the entry's timer thread has run
EngineOperationSweepsExpired ==
    [][ (\/ nextId' # nextId
         \/ handled' # None
         \/ \E cursor \in CursorPoints : CaptureEventAt(cursor))
        => \A i \in DOMAIN pending' : Age(pending'[i], now') <= MergeTimeoutMs ]_vars

\* C13: when stop() returns (and no start() has cleared its signal while it
\* waited), the loop thread has ended and is_running() is false, whatever the
\* capture interval configured
StopReturnsWithLoopEnded ==
    [][ (op' # None /\ op'[1].name = "stopped" /\ stopEvent') => ~capAlive' ]_vars

\* C14: start() called while the loop thread is alive starts no second thread
\* (the thread, its interval and its sleep are the ones there were), leaves
\* the stop event as it is and leaves the scheduler running
StartWhileRunningIsNoOp ==
    [][ (op' # None /\ op'[1].name = "start" /\ capAlive)
        => /\ capAlive'
           /\ stopEvent' = stopEvent
           /\ loop' = loop ]_vars

\* C14 witness: start() has returned while the loop thread slept with the
\* stop event set, and the event is still set
StartLeftStopSignalSet ==
    /\ op # None
    /\ op[1].name = "start"
    /\ op[1].running
    /\ capAlive
    /\ stopEvent
    /\ loop.wake > now

\* C15: an iteration of the capture loop whose capture fails is skipped: it
\* changes nothing in the engine, writes nothing, and leaves the loop thread
\* alive and asleep until its next iteration; the loop thread ends only when
\* the stop event is set
FailedIterationKeepsLoopAlive ==
    [][ /\ (op' # None /\ op'[1].name = "iteration" /\ ~op'[1].saved)
           => /\ capAlive'
              /\ loop'.interval >= 50
              /\ loop'.wake = now + loop'.interval
              /\ pending' = pending
              /\ timer' = timer
              /\ lastLine' = None
        /\ (capAlive /\ ~capAlive') => stopEvent ]_vars

\* C15 witness: the capture of an iteration has failed, stop() was not called,
\* and the loop thread is alive and asleep before its next iteration
LoopAsleepAfterFailedCapture ==
    /\ op # None
    /\ op[1].name = "iteration"
    /\ ~op[1].saved
    /\ capAlive
    /\ ~stopEvent
    /\ loop.wake > now

\* C16: _on_click writes nothing to the sink: the step stores one pending
\* entry for the click, created now, arms its timer and leaves every other
\* entry and timer alone; every record written for a click is written by the
\* timer thread, the ext_event request or the capture callback
OnClickOnlyStoresAndArms ==
    [][ /\ nextId' # nextId
           => /\ lastLine' = None
              /\ flushed' = Append(flushed, 0)
              /\ Len(pending') = Len(pending) + 1
              /\ SubSeq(pending', 1, Len(pending)) = pending
              /\ pending'[Len(pending')].id = nextId
              /\ pending'[Len(pending')].created_at = now
              /\ timer' = Append(timer, [st |-> "armed", armedAt |-> now])
        /\ lastLine' # None
           => lastLine'[1].by \in {"timer", "ext", "loop", "once"} ]_vars

\* C16 witness: a click has just been stored with its timer armed, nothing
\* has been written for it, and the sink was not written to in the step
ClickStoredNothingWritten ==
    /\ nextId > 1
    /\ pending # <<>>
    /\ pending[Len(pending)].id = nextId - 1
    /\ pending[Len(pending)].created_at = now
    /\ timer[nextId - 1] = [st |-> "armed", armedAt |-> now]
    /\ flushed[nextId - 1] = 0
    /\ lastLine = None

\* C17: every record written to the sink has a timestamp and a source, and
\* has both coordinates x and y, or a text, or a url_or_path
WrittenRecordHasTimeSourceAndContent ==
    lastLine # None
    => LET line == lastLine[1].line
       IN  /\ line.timestamp_utc # None
           /\ line.source # None
           /\ \/ line.x # None /\ line.y # None
              \/ line.text # None
              \/ line.url_or_path # None

\* the log_click calls that have returned, and those past their NDJSON write
SinkReturned == sinkCalls.begun - Cardinality({t \in 1..SinkThreads : sinkThread[t].pc # "idle"})
SinkPastNdjson ==
    Cardinality({t \in 1..SinkThreads : sinkThread[t].pc \in {"csv", "csvHeld", "csvRow"}})

\* the data rows of the clicks.csv files of all days
AllDataRows == DataRows(csvFile[1]) + DataRows(csvFile[2])

LocksApart ==
    \A t \in 1..SinkThreads :
        /\ ndjsonLock = t => sinkThread[t].pc = "ndjsonHeld"
        /\ csvLock = t => sinkThread[t].pc \in {"csvHeld", "csvRow"}

\* C19: a log_click call whose NDJSON write fails goes on to the CSV write,
\* and when that succeeds the row is in the file; a call whose CSV write fails
\* has its NDJSON line in the file if that write succeeded; the call returns
\* without raising in every case; and no thread holds one lock while it
\* holds or waits for the other
OneWriteFailingLeavesTheOther ==
    [][ /\ \A t \in 1..SinkThreads :
              /\ (sinkThread[t].pc = "ndjsonHeld" /\ sinkThread'[t].pc # "ndjsonHeld")
                 => sinkThread'[t].pc = "csv"
              /\ (sinkThread[t].pc # "idle" /\ sinkThread'[t].pc = "idle")
                 => /\ sinkRet' # None
                    /\ sinkRet'[1].thread = t
                    /\ ~sinkRet'[1].raised
                    /\ sinkRet'[1].csv = "ok"
                       => /\ csvFile'[utcDay] = Append(csvFile[utcDay], CsvRow(sinkThread[t].line))
                          /\ \A d \in Days \ {utcDay} : csvFile'[d] = csvFile[d]
                    /\ sinkRet'[1].ndjsonOk
                       => \E i \in DOMAIN ndjsonFile' : ndjsonFile'[i] = sinkThread[t].line
        /\ LocksApart' ]_vars

\* C19 witness: a call whose NDJSON write failed has returned with its row in
\* the CSV file, while another thread holds the NDJSON lock
CsvWrittenAfterNdjsonFailed ==
    /\ sinkRet # None
    /\ ~sinkRet[1].ndjsonOk
    /\ sinkRet[1].csv = "ok"
    /\ ndjsonFile = <<>>
    /\ AllDataRows = 1
    /\ ndjsonLock # 0

\* C20: a setConfig call leaves hz alone when its hz is absent or not
\* positive, leaves the output root and the active ClickLogger alone when its
\* output_base is absent, and always returns the hz and output root in force
\* after the call
ConfigIsPartialAndReturnsInForce ==
    [][ (op' # None /\ op'[1].name = "config")
        => /\ (op'[1].hz = None \/ op'[1].hz[1] <= 0) => hz' = hz
           /\ op'[1].output_base = None
              => outputBase' = outputBase /\ clickLogger' = clickLogger
           /\ op'[1].ret = Some([hz |-> hz', output_base |-> outputBase']) ]_vars

\* C21: every iteration of the running loop is followed by a sleep of
\* max(50 ms, 1/hz) for the hz in force at that iteration, so that a
\* setConfig(hz) made while the loop runs changes the spacing without a restart
IterationsFollowConfiguredHz ==
    [][ (op' # None /\ op'[1].name = "iteration")
        => loop'.wake = now + Max(50, 1000000 \div hz) ]_vars

\* C22: the attach window of _on_screenshot is max(0.75 s, 1/hz + 0.5 s) for
\* the hz in force, and so longer than one capture period
AttachTimeoutFollowsHz ==
    /\ AttachTimeoutMs = Max(750, (1000000 \div hz) + 500)
    /\ AttachTimeoutMs > 1000000 \div hz

\* C24: with the monitors of the example and dpr = 2, the record written for
\* an unmatched extension event that reports the global point (600,150)
\* carries display_id 2 and the scaled point (1200,300)
GlobalCssPointResolvesToMonitor2 ==
    ( /\ handled # None
      /\ "global_x" \in DOMAIN handled[1]
      /\ handled[1].global_x = Some(600)
      /\ handled[1].global_y = Some(150)
      /\ Get(handled[1], "devicePixelRatio") = Some(200)
      /\ resp # None /\ ~resp[1].merged
      /\ lastLine # None )
    => /\ lastLine[1].line.display_id = Some(2)
       /\ lastLine[1].line.x = Some(1200)
       /\ lastLine[1].line.y = Some(300)

\* C30: no record is written to the sink by the loop thread of the scheduler
NoSinkWriteOnLoopThread ==
    lastLine # None => lastLine[1].by # "loop"

\* the paths that match a pending click: the extension event, the screenshot
\* of the loop thread and the screenshot of capture_once
Matchers == {"ext", "loop", "once"}

\* C28: a step in which an extension event or a screenshot matches a pending
\* click removes that entry and stops that click's timer only; every other
\* pending entry stays with its record and creation time, every other timer
\* is as it was, and each of the other clicks still leaves the pending set
\* with exactly one record written for it
MatchCancelsOnlyItsOwnTimer ==
    /\ [][ PoppedBy(popped', Matchers)
           => /\ \A i \in DOMAIN pending :
                    pending[i].id # popped'[1].id
                    => \E j \in DOMAIN pending' : pending'[j] = pending[i]
              /\ Len(pending') = Len(pending) - 1
              /\ \A c \in DOMAIN timer :
                    c # popped'[1].id => timer'[c] = timer[c]
              /\ timer'[popped'[1].id].st # "armed" ]_vars
    /\ \A c \in 1..MaxClicks :
          /\ [](c \in DOMAIN flushed => flushed[c] <= 1)
          /\ (PoppedBy(popped, Matchers) /\ c \in PendingIds)
                ~> (c \notin PendingIds /\ c \in DOMAIN flushed /\ flushed[c] = 1)

\* C28 witness: a click has just been matched while another click is pending
\* with its timer still armed
MatchLeftOtherClickArmed ==
    /\ PoppedBy(popped, Matchers)
    /\ \E c \in PendingIds : c # popped[1].id /\ timer[c].st = "armed"

\* the real monitors (Python indices) of a layout that hold a point under
\* half-open bounds
Holding(m, x, y) ==
    { i \in 1..(Len(m) - 1) :
        /\ m[i + 1].left <= x /\ x < m[i + 1].left + m[i + 1].width
        /\ m[i + 1].top <= y /\ y < m[i + 1].top + m[i + 1].height }

\* C23: the Monitor Locator answers the least index from 1 up whose monitor
\* holds the point under half-open bounds, the virtual screen at index 0 left
\* out, and 1 when no monitor holds it; with the monitors of the example
\* (500,400) is on 1, (1200,300) on 2 and (1999,999) falls back to 1
LocatorFindsFirstHoldingMonitor ==
    (op # None /\ op[1].name = "locate" /\ op[1].idx # None)
    => LET m == op[1].monitors
           x == op[1].x
           y == op[1].y
           idx == op[1].idx[1]
       IN  /\ Holding(m, x, y) # {}
              => idx \in Holding(m, x, y) /\ \A i \in Holding(m, x, y) : idx <= i
           /\ Holding(m, x, y) = {} => idx = 1
           /\ m = Monitors /\ x = 500 /\ y = 400 => idx = 1
           /\ m = Monitors /\ x = 1200 /\ y = 300 => idx = 2
           /\ m = Monitors /\ x = 1999 /\ y = 999 => idx = 1

\* C23 witness: the point (1999,999) of the example, which no monitor holds,
\* answered with the primary monitor
LocatorFellBackToPrimary ==
    /\ op # None /\ op[1].name = "locate"
    /\ op[1].monitors = Monitors /\ op[1].x = 1999 /\ op[1].y = 999
    /\ Holding(Monitors, 1999, 999) = {}
    /\ op[1].idx = Some(1)

\* a capture_once call that returned in the last step
OnceReturned == op # None /\ op[1].name = "capture_once"

\* C26: capture_once saves the image and returns its path exactly when a
\* loop iteration would have saved it against the same answers of the screen
\* and the disk; so also when the first save fails and the second would
\* succeed
CaptureOnceRetriesSaveLikeLoop ==
    OnceReturned => ((op[1].ret # None) <=> LoopOutcome(op[1].env).saved)

\* C27: capture_once does not raise; it returns the path of the image when
\* the grab and the save succeeded and None otherwise; the callback is called
\* at most once and only after the save; a callback that raises leaves the
\* returned path as it is; and without a callback into the engine no pending
\* click is touched
CaptureOnceReturnsPathOrNone ==
    OnceReturned
    => LET env == op[1].env
           saved == (env.grabs[1] \/ env.grabs[2]) /\ env.saves[1]
       IN  /\ ~op[1].raised
           /\ saved => op[1].ret = Some(ScreenshotPath(now))
           /\ ~saved => op[1].ret = None
           /\ op[1].callbacks <= 1
           /\ op[1].callbacks = 1 => saved /\ env.cb # "none"
           /\ saved /\ env.cb # "none" => op[1].callbacks = 1
           /\ (op[1].callbacks = 0 \/ env.cb # "engine") => popped = None /\ lastLine = None

\* C27 witness: a call whose callback raised has returned the saved path
CaptureOnceKeptPathThoughCallbackRaised ==
    /\ OnceReturned
    /\ op[1].env.cb = "raises"
    /\ op[1].callbacks = 1
    /\ op[1].ret = Some(ScreenshotPath(now))

\* C29: every clicks.csv file that holds anything begins with the header and
\* holds the header nowhere else, at every moment of every interleaving of
\* log_click calls on one ClickLogger
CsvHeaderOnceAndFirst ==
    \A d \in Days :
        csvFile[d] # <<>>
        => /\ csvFile[d][1] = CsvHeader
           /\ \A i \in 2..Len(csvFile[d]) : csvFile[d][i] # CsvHeader

\* the loop thread has just ended, after a stop() made runMs after the start()
LoopEndedAfterRunOf(runMs) ==
    /\ op # None /\ op[1].name = "exit"
    /\ joining = Some(runMs)

LoopIterated == op # None /\ op[1].name = "loop_body"

\* C31: within one loop iteration the grab is attempted at most twice and the
\* save at most twice (and not at all after a failed grab); a callback that
\* is set is called exactly once when the image was saved and never when the
\* grab or the save failed; an exception of the callback does not leave the
\* iteration, leaves the loop thread alive, and causes no second save and no
\* second callback
IterationRetriesOnceCallsBackOnce ==
    LoopIterated
    => LET env == op[1].env
           grabbed == env.grabs[1] \/ env.grabs[2]
           saved == grabbed /\ (env.saves[1] \/ env.saves[2])
       IN  /\ op[1].grabs \in 1..2
           /\ op[1].saves \in 0..2
           /\ ~grabbed => op[1].saves = 0
           /\ op[1].saved = saved
           /\ env.cb # "none" => op[1].callbacks = (IF saved THEN 1 ELSE 0)
           /\ env.cb = "none" => op[1].callbacks = 0
           /\ grabbed /\ env.saves[1] => op[1].saves = 1
           /\ ~op[1].raised
           /\ capAlive
           /\ (op[1].callbacks = 0 \/ env.cb # "engine")
              => popped = None /\ lastLine = None

\* C31 witness: an iteration whose first save failed saved at the second
\* attempt and called a callback that raised, once
IterationSavedAtSecondAttemptCallbackRaised ==
    /\ LoopIterated
    /\ op[1].env.cb = "raises"
    /\ op[1].env.saves = <<FALSE, TRUE>>
    /\ op[1].saves = 2
    /\ op[1].callbacks = 1
    /\ capAlive

\* the ext-only record built in the last step for a payload on a layout
Mapped == op # None /\ op[1].name = "map" /\ op[1].record # None

\* the points the mapping tries for a payload, in order: the raw point, and
\* when a dpr other than 1 is given the point multiplied by it and the point
\* divided by it, each rounded
MapTries(payload) ==
    LET gx == payload.global_x[1]
        gy == payload.global_y[1]
        given == IF TruthyInt(Get(payload, "devicePixelRatio"))
                 THEN payload.devicePixelRatio[1]
                 ELSE IF TruthyInt(Get(payload, "dpr")) THEN payload.dpr[1]
                 ELSE 100
    IN  IF given = 100 THEN << <<gx, gy>> >>
        ELSE << <<gx, gy>>,
                <<RoundHalfEven(gx * given, 100), RoundHalfEven(gy * given, 100)>>,
                <<RoundHalfEven(gx * 100, given), RoundHalfEven(gy * 100, given)>> >>

\* C32: the ext-only record of an event with global coordinates takes its
\* display_id and its x, y from the first of the raw point, the point times
\* dpr and the point divided by dpr that lies in a monitor (only the raw
\* point when dpr is 1 or absent); when none does, or a global coordinate is
\* missing, display_id and x, y are those of the payload
MapTriesRawThenScaledUpThenDown ==
    Mapped
    => LET m == op[1].monitors
           payload == op[1].payload
           rec == op[1].record[1]
           asSupplied == /\ rec.display_id = Get(payload, "display_id")
                         /\ rec.x = Get(payload, "x")
                         /\ rec.y = Get(payload, "y")
       IN  IF Get(payload, "global_x") = None \/ Get(payload, "global_y") = None
           THEN asSupplied
           ELSE LET tries == MapTries(payload)
                    hits == {k \in DOMAIN tries :
                                Holding(m, tries[k][1], tries[k][2]) # {}}
                IN  IF hits = {} THEN asSupplied
                    ELSE LET k == CHOOSE h \in hits : \A j \in hits : h <= j
                             on == Holding(m, tries[k][1], tries[k][2])
                         IN  /\ rec.display_id # None
                             /\ rec.display_id[1] \in on
                             /\ \A i \in on : rec.display_id[1] <= i
                             /\ rec.x = Some(tries[k][1])
                             /\ rec.y = Some(tries[k][2])

\* C32 witness: the raw point (1500,100) lies in the gap between the monitors,
\* the point times 1.6 on monitor 2 and the point divided by 1.6 on monitor
\* 1: the record is on monitor 2 at (2400,160)
MappedByScalingUpBeforeDown ==
    /\ Mapped
    /\ op[1].monitors = GapMonitors
    /\ Get(op[1].payload, "global_x") = Some(1500)
    /\ Get(op[1].payload, "global_y") = Some(100)
    /\ Get(op[1].payload, "devicePixelRatio") = Some(160)
    /\ Holding(GapMonitors, 938, 62) = {1}
    /\ op[1].record[1].display_id = Some(2)
    /\ op[1].record[1].x = Some(2400)
    /\ op[1].record[1].y = Some(160)

\* the listener thread handled a mouse event in the last step
MouseHandled == op # None /\ op[1].name = "mouse"

\* C33: the handler stores one pending entry for a left-button press that it
\* handles without an exception and none for a release or another button;
\* an exception stores no second entry, does not leave the handler and
\* leaves the listener running, so that the next press is handled; and
\* start() while the listener runs creates no listener
ListenerStoresLeftPressesAndSurvives ==
    /\ [](MouseHandled
          => LET ev == op[1].ev
                 press == ev.pressed /\ ev.button = "Button.left"
             IN  /\ ~press => op[1].stored = 0
                 /\ press /\ ev.fault = "none" => op[1].stored = 1
                 /\ press => op[1].stored <= 1
                 /\ ~op[1].raised
                 /\ op[1].listener \in listener.running)
    /\ [](Cardinality(listener.running) <= 1)
    /\ [][(/\ listener.obj \in listener.running
            /\ op' # None
            /\ op'[1].name = "listener_start")
           => listener' = listener]_vars

\* C33 witness: after a press whose handling raised in the callback, the same
\* listener has stored the entry of a later press
PressStoredAfterCallbackRaised ==
    /\ MouseHandled
    /\ op[1].ev.fault = "none"
    /\ op[1].stored = 1
    /\ Len(timer) = 2
    /\ timer[1].st = "unstarted"
    /\ listener.made = 1

\* the loop threads alive: the one _thread refers to and those it lost
LoopThreadsAlive == (IF capAlive THEN 1 ELSE 0) + orphans

\* C34: at every moment at most one capture loop thread is alive, whatever
\* the interleaving of the start() and stop() calls of the request threads
AtMostOneLoopThread == LoopThreadsAlive <= 1

\* C35: when start() has returned and no stop() is in progress, the loop
\* thread is alive and its stop signal is clear, so that it goes on iterating
\* until the next stop(); also when the start() follows a stop() whose join
\* timed out
StartLeavesSchedulerRunning ==
    (op # None /\ op[1].name = "start" /\ joining = None)
    => capAlive /\ ~stopEvent

\* C36: with timer threads that run on time, no entry is pending later than
\* mergeTimeout after its click, and every screenshot _on_screenshot attaches
\* (on the loop thread or inside capture_once) is attached to a click not
\* older than mergeTimeout, though screenshotAttachTimeout is longer
ShotAttachesWithinMergeTimeout ==
    /\ [](\A i \in DOMAIN pending : Age(pending[i], now) <= MergeTimeoutMs)
    /\ [](MergeTimeoutMs < AttachTimeoutMs)
    /\ [][ PoppedBy(popped', {"loop", "once"})
           => Age(EntryOf(pending, popped'[1].id), now) <= MergeTimeoutMs ]_vars

\* C36 witness: a screenshot of the loop was attached to a click exactly
\* mergeTimeout after the click, before the timer thread of the click ran
ShotAttachedAtMergeDeadline ==
    /\ PoppedBy(popped, {"loop"})
    /\ lastLine # None
    /\ lastLine[1].line.screenshot_path = Some(ScreenshotPath(now))
    /\ lastLine[1].line.timestamp_utc = Some(now - MergeTimeoutMs)

\* C37: a row of a clicks.csv file stays in the file at its place: no step
\* of any log_click call removes or replaces a row written before, also when
\* set_config has replaced the ClickLogger while a call on the previous one
\* is in progress
CsvRowsAreNeverLost ==
    [][ \A d \in Days :
          /\ Len(csvFile'[d]) >= Len(csvFile[d])
          /\ SubSeq(csvFile'[d], 1, Len(csvFile[d])) = csvFile[d] ]_vars

\* stop() was called in the last step while click c was pending
StopCalledWith(c) ==
    /\ op # None /\ op[1].name = "stop"
    /\ c \in PendingIds

\* a step of POST /stop: ScreenCapture.stop begins or returns, or
\* GlobalClickListener.stop
StopStep ==
    op' # None /\ op'[1].name \in {"stop", "stopped", "listener_stop"}

\* C38 as stated: no step of POST /stop touches the pending set, and every
\* click pending when stop() is called is afterwards flushed by its own timer
StopLeavesClicksToTheirTimers ==
    /\ [][StopStep => UNCHANGED <<pending, timer, flushed, removed>>]_vars
    /\ \A c \in 1..MaxClicks :
          StopCalledWith(c)
          ~> (lastLine # None /\ lastLine[1].id = c /\ lastLine[1].by = "timer")

\* C38 amended: no step of POST /stop touches the pending set, the timers or
\* the sink; every click pending when stop() is called is afterwards removed
\* and flushed, and no click is ever removed or flushed twice; the flush is
\* by the click's timer unless an extension event or a capture took the
\* click first
StopDropsNoPendingClick ==
    /\ [][StopStep => UNCHANGED <<pending, timer, flushed, removed>>]_vars
    /\ [](\A c \in DOMAIN flushed : flushed[c] <= 1 /\ removed[c] <= 1)
    /\ [][ \A c \in DOMAIN flushed :
             flushed'[c] > flushed[c]
             => /\ lastLine' # None /\ lastLine'[1].id = c
                /\ lastLine'[1].by \in {"timer", "ext", "loop", "once"} ]_vars
    /\ \A c \in 1..MaxClicks :
          StopCalledWith(c)
          ~> (c \in DOMAIN flushed /\ flushed[c] = 1 /\ removed[c] = 1
              /\ c \notin PendingIds)

\* C38 witness: stop() has been called with a click pending whose timer is
\* still waiting, while the listener runs and the loop thread is inside an
\* iteration
StopCalledWithClickPending ==
    /\ \E c \in 1..MaxClicks :
          StopCalledWith(c) /\ timer[c].st = "armed"
    /\ capAlive
    /\ inFlight
    /\ listener.obj # 0

\* the failed reads at the end of a sequence of reads: those that met a
\* header, content or text that could not be read
RECURSIVE TrailingFailed(_)
TrailingFailed(reads) ==
    IF reads = <<>> \/ reads[Len(reads)] # "bad" THEN 0
    ELSE 1 + TrailingFailed(SubSeq(reads, 1, Len(reads) - 1))

\* C39: the native host has exited with status 1 exactly when its last
\* MaxErrors reads all failed; while it runs, error_count is the number of
\* failed reads since the last message read or since the start; it has exited
\* with status 0 exactly when its last read found stdin closed, and that read
\* left the count as it was
HostExitsAfterFiveFailedReads ==
    /\ host.status = "exit1" <=> TrailingFailed(host.trail) >= MaxErrors
    /\ host.status = "running" => host.error_count = TrailingFailed(host.trail)
    /\ host.status = "exit0"
          <=> (host.trail # <<>> /\ host.trail[Len(host.trail)] = "closed")
    /\ host.status = "exit0"
          => host.error_count
                = TrailingFailed(SubSeq(host.trail, 1, Len(host.trail) - 1))

====
